---- MODULE Spec2Model ----
(***************************************************************************)
(* Model of the instrument communication layer of hardware-measurement:    *)
(*   - the Uni-T 161D HID driver (frame decoder read_response, command     *)
(*     encoding, the command batch loop),                                  *)
(*   - the USB bulk SCPI driver (the command batch loop).                  *)
(* Bytes are naturals 0..255; byte strings are sequences of bytes.         *)
(***************************************************************************)
EXTENDS Naturals, Sequences, FiniteSets

VARIABLES
    \* ---- HID driver (communication/unit161d.rs) ----
    commands,       \* the batch handed to Unit161dHid::command
    tok,            \* 1-based position of the for loop in commands
    pc,             \* "token" | "read" | "done"
    hidlog,         \* device I/O performed by the batch, in order
    state,          \* read_response: decoder state 0..3
    buf,            \* read_response: payload buffer
    index,          \* read_response: write index into buf (0-based)
    sum,            \* read_response: running sum
    rx,             \* bytes fed to the decoder by the current read_response call
    nreads,         \* reports read by the current read_response call
    sent,           \* bytes the device chose to send during the current call
    resp,           \* what the latest read_response call returned
    measurements,   \* readings collected so far by the batch
    result,         \* what command returned ([kind |-> "Running"] before that)
    \* ---- USB bulk driver (communication/scpiusb.rs) ----
    ucommands,      \* the batch handed to ScpiUsb::command
    utok,           \* 1-based position of the for loop in ucommands
    upc,            \* position inside ScpiUsb::command
    ulog,           \* USB events of the batch, in order
    inflight,       \* transfers submitted and not yet completed
    held,           \* resources held: subset of {"device", "interface"}
    response,       \* readings collected so far by the batch
    uresult,        \* what command returned ([kind |-> "Running"] before that)
    \* the drivers that parse the batch with a dialect
    \* (peaktech4055mv/instrumentation.rs, scpiusb/communication.rs)
    driver,         \* "Peaktech4055mv" or "ScpiUsb"
    dcommands,      \* the batch: a sequence of tokens (texts)
    parsed,         \* parsed_commands
    dtok,           \* index of the command the for loop is at
    dpc,            \* position inside command
    dlog,           \* USB events of the batch, in order
    dresponse,      \* response: None or Some(the strings read so far)
    dresult,        \* what command returned
    \* ---- a consumer of a reading (reading/common.rs: trait Reading) ----
    reading,        \* the reading the consumer holds
    call,           \* the accessor called last, "none" before any call
    returned,       \* what that accessor returned
    \* ---- the device factory (communication/common.rs) ----
    args,           \* the arguments get_communication_device is called with
    made,           \* what get_communication_device returned
    requested       \* what the made driver asked of the USB device, in order

hidvars == <<commands, tok, pc, hidlog, state, buf, index, sum, rx, nreads,
             sent, resp, measurements, result>>
usbvars == <<ucommands, utok, upc, ulog, inflight, held, response, uresult>>
dialectvars == <<driver, dcommands, parsed, dtok, dpc, dlog, dresponse,
                 dresult>>
accessvars == <<reading, call, returned>>
factoryvars == <<args, made, requested>>
vars == <<hidvars, usbvars, dialectvars, accessvars, factoryvars>>

\* no consumer holds a reading
AccessIdle == reading = <<>> /\ call = "none" /\ returned = [kind |-> "Running"]

\* get_communication_device is not called
FactoryIdle == args = <<>> /\ made = [kind |-> "Running"] /\ requested = <<>>

\* no call of a dialect driver is under way
DialectIdle ==
    /\ driver = "none" /\ dcommands = <<>> /\ parsed = <<>> /\ dtok = 1
    /\ dpc = "idle" /\ dlog = <<>> /\ dresponse = <<>>
    /\ dresult = [kind |-> "Running"]

-----------------------------------------------------------------------------
(* Bounds of the model *)

\* longest batch of tokens handed to a driver
MaxTokens == 2
\* reports the device delivers to one read_response call
MaxReports == 2
\* nonzero bytes the device sends before the first 0xAB of a call
MaxNoise == 1
\* largest length byte the device sends in the decoder specification
MaxLen == 3

-----------------------------------------------------------------------------
(* Helpers on byte strings *)

\* the sum of s[lo..hi], by halves
RECURSIVE SumRange(_, _, _)
SumRange(s, lo, hi) ==
    IF lo > hi THEN 0
    ELSE IF lo = hi THEN s[lo]
    ELSE LET mid == (lo + hi) \div 2
         IN  SumRange(s, lo, mid) + SumRange(s, mid + 1, hi)

SumSeq(s) == SumRange(s, 1, Len(s))

Zeros(n) == [k \in 1..n |-> 0]

SeqsUpTo(S, n) == UNION {[1..k -> S] : k \in 0..n}

\* index of the first occurrence of b in s, 0 when there is none
FirstIndex(s, b) ==
    IF \E k \in 1..Len(s) : s[k] = b
    THEN CHOOSE k \in 1..Len(s) : s[k] = b /\ \A j \in 1..(k-1) : s[j] # b
    ELSE 0

RECURSIVE Pow2(_)
Pow2(k) == IF k = 0 THEN 1 ELSE 2 * Pow2(k - 1)

\* b with bit k inverted
FlipBit(b, k) ==
    IF (b \div Pow2(k)) % 2 = 1 THEN b - Pow2(k) ELSE b + Pow2(k)

-----------------------------------------------------------------------------
(* Text operations.  Text is a sequence of character codes (Unicode scalar *)
(* values; ASCII text is a sequence of ASCII codes).                       *)

SPACE == 32       \* ' '
COMMA == 44       \* ','

\* the characters with the White_Space property, which trim removes
WhiteSpace ==
    {9, 10, 11, 12, 13, 32, 133, 160, 5760, 8232, 8233, 8239, 8287, 12288}
    \cup 8192..8202

\* str::starts_with
StartsWith(t, p) == Len(t) >= Len(p) /\ SubSeq(t, 1, Len(p)) = p

\* &t[n..]
DropFirst(t, n) == SubSeq(t, n + 1, Len(t))

\* str::split(sep): the pieces between the separators, at least one
RECURSIVE Split(_, _)
Split(t, sep) ==
    LET i == FirstIndex(t, sep)
    IN  IF i = 0 THEN <<t>>
        ELSE <<SubSeq(t, 1, i - 1)>> \o Split(DropFirst(t, i), sep)

RECURSIVE TrimStart(_)
TrimStart(t) ==
    IF t # <<>> /\ t[1] \in WhiteSpace THEN TrimStart(Tail(t)) ELSE t

RECURSIVE TrimEnd(_)
TrimEnd(t) ==
    IF t # <<>> /\ t[Len(t)] \in WhiteSpace
    THEN TrimEnd(SubSeq(t, 1, Len(t) - 1))
    ELSE t

\* str::trim
Trim(t) == TrimEnd(TrimStart(t))

\* str::replace(p, ""): every non-overlapping occurrence of p removed
RECURSIVE Remove(_, _)
Remove(t, p) ==
    IF Len(t) < Len(p) THEN t
    ELSE IF StartsWith(t, p) THEN Remove(DropFirst(t, Len(p)), p)
    ELSE <<t[1]>> \o Remove(Tail(t), p)


\* the character that stands for an invalid byte sequence
REPLACEMENT == 65533    \* U+FFFD

\* b[i] exists and is a continuation byte
Cont(b, i) == i <= Len(b) /\ b[i] \in 128..191

\* the second byte allowed after the lead byte f of a three-byte sequence
Second3(f, c) ==
    \/ f = 224 /\ c \in 160..191
    \/ f \in 225..236 /\ c \in 128..191
    \/ f = 237 /\ c \in 128..159
    \/ f \in 238..239 /\ c \in 128..191

\* the second byte allowed after the lead byte f of a four-byte sequence
Second4(f, c) ==
    \/ f = 240 /\ c \in 144..191
    \/ f \in 241..243 /\ c \in 128..191
    \/ f = 244 /\ c \in 128..143

\* a sequence that is no UTF-8, n bytes long
Utf8Bad(n) == [ok |-> FALSE, cp |-> REPLACEMENT, n |-> n]

\* the first character of the non-empty bytes b: its code point and the
\* number of bytes it takes, or the length of the invalid sequence b
\* starts with
Utf8Next(b) ==
    LET f == b[1]
    IN  IF f < 128 THEN [ok |-> TRUE, cp |-> f, n |-> 1]
        ELSE IF f \in 194..223
        THEN IF Cont(b, 2)
             THEN [ok |-> TRUE, cp |-> (f - 192) * 64 + (b[2] - 128), n |-> 2]
             ELSE Utf8Bad(1)
        ELSE IF f \in 224..239
        THEN IF ~(Len(b) >= 2 /\ Second3(f, b[2])) THEN Utf8Bad(1)
             ELSE IF ~Cont(b, 3) THEN Utf8Bad(2)
             ELSE [ok |-> TRUE, n |-> 3,
                   cp |-> (f - 224) * 4096 + (b[2] - 128) * 64 + (b[3] - 128)]
        ELSE IF f \in 240..244
        THEN IF ~(Len(b) >= 2 /\ Second4(f, b[2])) THEN Utf8Bad(1)
             ELSE IF ~Cont(b, 3) THEN Utf8Bad(2)
             ELSE IF ~Cont(b, 4) THEN Utf8Bad(3)
             ELSE [ok |-> TRUE, n |-> 4,
                   cp |-> (f - 240) * 262144 + (b[2] - 128) * 4096
                          + (b[3] - 128) * 64 + (b[4] - 128)]
        ELSE Utf8Bad(1)

\* String::from_utf8_lossy: every invalid sequence becomes one U+FFFD
RECURSIVE from_utf8_lossy(_)
from_utf8_lossy(data) ==
    IF data = <<>> THEN <<>>
    ELSE LET c == Utf8Next(data)
         IN  <<c.cp>> \o from_utf8_lossy(SubSeq(data, c.n + 1, Len(data)))

\* whether the bytes are UTF-8 throughout
RECURSIVE IsUtf8(_)
IsUtf8(data) ==
    IF data = <<>> THEN TRUE
    ELSE LET c == Utf8Next(data)
         IN  c.ok /\ IsUtf8(SubSeq(data, c.n + 1, Len(data)))

-----------------------------------------------------------------------------
(* Uni161dCommand: the binary opcode dialect (command/unit161d.rs) *)

\* enum Uni161dCommand: name -> discriminant
Uni161dCommand ==
    [Measure |-> 94, MinMax |-> 65, NotMinMax |-> 66, Range |-> 70,
     Auto |-> 71, Rel |-> 72, Select2 |-> 73, Hold |-> 74, Lamp |-> 75,
     Select1 |-> 76, PMinMax |-> 77, NotPeak |-> 78]

\* impl TryFrom<String> for Uni161dCommand, with a case-insensitive match
try_from_anycase(value) ==
    LET canon == [measure |-> "Measure", hold |-> "Hold"]
        v == IF value \in DOMAIN canon THEN canon[value] ELSE value
    IN  IF v \in DOMAIN Uni161dCommand
        THEN [ok |-> TRUE, cmd |-> Uni161dCommand[v]]
        ELSE [ok |-> FALSE, err |-> "Command", msg |-> <<"Unknown command: ", value>>]

\* impl TryFrom<String> for Uni161dCommand
try_from(value) ==
    IF value \in DOMAIN Uni161dCommand
    THEN [ok |-> TRUE, cmd |-> Uni161dCommand[value]]
    ELSE [ok |-> FALSE, err |-> "Command", msg |-> <<"Unknown command: ", value>>]

-----------------------------------------------------------------------------
(* Frame encoding of the HID driver (communication/unit161d.rs) *)

SEQUENCE_SEND_CMD == <<171, 205, 3>>

\* the offset added to the opcode before it is split into two bytes
CmdOffset == 379

\* cmd_bytes of Unit161dHid::command with the two sum bytes swapped
cmd_bytes_swapped(cmd) ==
    LET c == (cmd + CmdOffset) % 65536
    IN  <<cmd % 256, c % 256, (c \div 256) % 256>>

\* cmd_bytes of Unit161dHid::command for the u16 value cmd
cmd_bytes(cmd) ==
    LET c == (cmd + CmdOffset) % 65536
    IN  <<cmd % 256, (c \div 256) % 256, c % 256>>

\* seq of Unit161dHid::command
seq_of(cmd) == SEQUENCE_SEND_CMD \o cmd_bytes(cmd)

\* the bytes write_with_length hands to hiddevice.write
write_with_length(data) == <<Len(data) % 256>> \o data

\* a driver that waits for a response to Measure only
reads_response_measure(cmd) == cmd = 94

\* whether command calls read_response after writing the frame of cmd:
\* the call is unconditional
reads_response(cmd) == TRUE

\* the argument of write_with_length in main (main.rs)
MainMeasureFrame == <<171, 205, 3, 94, 1, 217>>

-----------------------------------------------------------------------------
(* read_response: the frame decoder (communication/unit161d.rs) *)

\* size of the buffer x handed to hiddevice.read
ReportLen == 64

\* parse needs this many bytes (reading/unit161d.rs)
MinReadingLen == 14

\* the decoder starting from what the call before left
DecoderInit_carried ==
    [state |-> state, buf |-> buf, index |-> index, sum |-> sum,
     out |-> "more", body |-> <<>>]

\* the locals of read_response at its start
DecoderInit == [state |-> 0, buf |-> <<>>, index |-> 0, sum |-> 0,
                out |-> "more", body |-> <<>>]

\* a running sum over every byte, the two checksum bytes too
Summed_all(d) == d.state <= 3

\* a running sum over the payload bytes alone
Summed_payload(d) == d.state = 3 /\ d.index + 2 < Len(d.buf)

\* a running-sum condition that leaves out the last byte before the checksum
Summed_short(d) == d.state < 3 \/ d.index + 3 < Len(d.buf)

\* whether the byte being fed is added to sum
Summed(d) == d.state < 3 \/ d.index + 2 < Len(d.buf)

\* the trailing two bytes read low byte first
received_sum_le(b) == b[Len(b) - 1] + b[Len(b)] * 256

\* received_sum: the trailing two bytes of the full buffer, big-endian
received_sum(b) == b[Len(b) - 1] * 256 + b[Len(b)]

\* the buffer returned whole
truncated_none(b) == b

\* buf.truncate(buf.len() - 2)
truncated(b) == SubSeq(b, 1, Len(b) - 2)

\* the body of `for &b in &x[1..]` for one byte b; out is "more" while the
\* loop goes on, otherwise how read_response ended:
\*   "ok" (Ok(Some(body))), "unexpected" and "checksum" (Err(Hid)),
\*   "panic" (index out of bounds / subtraction overflow on a length < 2)
Feed(d, b) ==
    LET s1 == IF Summed(d) THEN d.sum + b ELSE d.sum
    IN  CASE d.state = 0 ->
               [d EXCEPT !.sum = s1, !.state = IF b = 171 THEN 1 ELSE 0]
          [] d.state = 1 ->
               IF b = 205
               THEN [d EXCEPT !.sum = s1, !.state = 2]
               ELSE [d EXCEPT !.sum = s1, !.out = "unexpected"]
          [] d.state = 2 ->
               [d EXCEPT !.sum = s1, !.buf = Zeros(b), !.index = 0, !.state = 3]
          [] OTHER ->
               IF d.index >= Len(d.buf)
               THEN [d EXCEPT !.sum = s1, !.out = "panic"]
               ELSE LET nb == [d.buf EXCEPT ![d.index + 1] = b]
                        ni == d.index + 1
                        e  == [d EXCEPT !.sum = s1, !.buf = nb, !.index = ni]
                    IN  IF ni # Len(nb) THEN e
                        ELSE IF Len(nb) < 2 THEN [e EXCEPT !.out = "panic"]
                        ELSE IF s1 # received_sum(nb)
                             THEN [e EXCEPT !.out = "checksum"]
                             ELSE [e EXCEPT !.out = "ok", !.body = truncated(nb)]

\* the for loop over bytes[lo..hi], in order, stopping at the byte that ends
\* read_response; r.d is the decoder, r.n the number of bytes consumed
RECURSIVE FeedRange(_, _, _, _)
FeedRange(r, bytes, lo, hi) ==
    IF lo > hi \/ r.d.out # "more" THEN r
    ELSE IF lo = hi THEN [d |-> Feed(r.d, bytes[lo]), n |-> lo]
    ELSE LET mid == (lo + hi) \div 2
             left == FeedRange(r, bytes, lo, mid)
         IN  FeedRange(left, bytes, mid + 1, hi)

\* the for loop over bytes[k..]
FeedAll(d, bytes, k) == FeedRange([d |-> d, n |-> k - 1], bytes, k, Len(bytes))

\* x after hiddevice.read: zero-initialised, the delivered bytes in front
ReadBuffer(data) == data \o Zeros(ReportLen - Len(data))

\* the slice fed from the start of x
fed_slice_all(x) == x

\* &x[1..]: the slice the for loop runs over
fed_slice(x) == Tail(x)

\* read_response run on a whole stream of fed bytes
Decode(stream) == FeedAll(DecoderInit, stream, 1).d

-----------------------------------------------------------------------------
(* Results of command *)

Running == [kind |-> "Running"]
Ok(v) == [kind |-> "Ok", value |-> v]
Err(e, m) == [kind |-> "Err", err |-> e, msg |-> m]
Panicked == [kind |-> "Panic"]
\* Option: <<>> is None, <<v>> is Some(v)
None == <<>>
Some(v) == <<v>>

\* Unit161dReading (reading/unit161d.rs)

\* const MODE: the mode names by mode byte, byte 0 first
MODE ==
    <<
       <<65, 67, 86>>,                    \* 0 ACV
       <<65, 67, 109, 86>>,               \* 1 ACmV
       <<68, 67, 86>>,                    \* 2 DCV
       <<68, 67, 109, 86>>,               \* 3 DCmV
       <<72, 122>>,                       \* 4 Hz
       <<37>>,                            \* 5 %
       <<79, 72, 77>>,                    \* 6 OHM
       <<67, 79, 78, 84>>,                \* 7 CONT
       <<68, 73, 68, 79, 69>>,            \* 8 DIDOE
       <<67, 65, 80>>,                    \* 9 CAP
       <<176, 67>>,                       \* 10 deg C
       <<176, 70>>,                       \* 11 deg F
       <<68, 67, 117, 65>>,               \* 12 DCuA
       <<65, 67, 117, 65>>,               \* 13 ACuA
       <<68, 67, 109, 65>>,               \* 14 DCmA
       <<65, 67, 109, 65>>,               \* 15 ACmA
       <<68, 67, 65>>,                    \* 16 DCA
       <<65, 67, 65>>,                    \* 17 ACA
       <<72, 70, 69>>,                    \* 18 HFE
       <<76, 105, 118, 101>>,             \* 19 Live
       <<78, 67, 86>>,                    \* 20 NCV
       <<76, 111, 122, 86>>,              \* 21 LozV
       <<65, 67, 65>>,                    \* 22 ACA
       <<68, 67, 65>>,                    \* 23 DCA
       <<76, 80, 70>>,                    \* 24 LPF
       <<65, 67, 47, 68, 67>>,            \* 25 AC/DC
       <<76, 80, 70>>,                    \* 26 LPF
       <<65, 67, 43, 68, 67>>,            \* 27 AC+DC
       <<76, 80, 70>>,                    \* 28 LPF
       <<65, 67, 43, 68, 67, 50>>,        \* 29 AC+DC2
       <<73, 78, 82, 85, 83, 72>>         \* 30 INRUSH
    >>

\* const OVERLOAD: display texts that mean overload
OVERLOAD ==
    {
       <<46, 79, 76>>,                    \* .OL
       <<79, 46, 76>>,                    \* O.L
       <<79, 76, 46>>,                    \* OL.
       <<79, 76>>,                        \* OL
       <<45, 46, 79, 76>>,                \* -.OL
       <<45, 79, 46, 76>>,                \* -O.L
       <<45, 79, 76, 46>>,                \* -OL.
       <<45, 79, 76>>                     \* -OL
    }

\* const NCV: display texts of the voltage detector
NCV ==
    {
       <<69, 70>>,                        \* EF
       <<45>>,                            \* -
       <<45, 45>>,                        \* --
       <<45, 45, 45>>,                    \* ---
       <<45, 45, 45, 45>>,                \* ----
       <<45, 45, 45, 45, 45>>             \* -----
    }

\* the arms of the match of get_unit: mode, range, unit
UnitTable ==
    {
       <<<<37>>, <<48>>, <<37>>>>,        \* % 0 -> %
       <<<<65, 67, 43, 68, 67>>, <<49>>, <<65>>>>, \* AC+DC 1 -> A
       <<<<65, 67, 43, 68, 67, 50>>, <<49>>, <<65>>>>, \* AC+DC2 1 -> A
       <<<<65, 67, 47, 68, 67>>, <<48>>, <<86>>>>, \* AC/DC 0 -> V
       <<<<65, 67, 47, 68, 67>>, <<49>>, <<86>>>>, \* AC/DC 1 -> V
       <<<<65, 67, 47, 68, 67>>, <<50>>, <<86>>>>, \* AC/DC 2 -> V
       <<<<65, 67, 47, 68, 67>>, <<51>>, <<86>>>>, \* AC/DC 3 -> V
       <<<<65, 67, 65>>, <<49>>, <<65>>>>, \* ACA 1 -> A
       <<<<65, 67, 86>>, <<48>>, <<86>>>>, \* ACV 0 -> V
       <<<<65, 67, 86>>, <<49>>, <<86>>>>, \* ACV 1 -> V
       <<<<65, 67, 86>>, <<50>>, <<86>>>>, \* ACV 2 -> V
       <<<<65, 67, 86>>, <<51>>, <<86>>>>, \* ACV 3 -> V
       <<<<65, 67, 109, 65>>, <<48>>, <<109, 65>>>>, \* ACmA 0 -> mA
       <<<<65, 67, 109, 65>>, <<49>>, <<109, 65>>>>, \* ACmA 1 -> mA
       <<<<65, 67, 109, 86>>, <<48>>, <<109, 86>>>>, \* ACmV 0 -> mV
       <<<<65, 67, 117, 65>>, <<48>>, <<117, 65>>>>, \* ACuA 0 -> uA
       <<<<65, 67, 117, 65>>, <<49>>, <<117, 65>>>>, \* ACuA 1 -> uA
       <<<<67, 65, 80>>, <<48>>, <<110, 70>>>>, \* CAP 0 -> nF
       <<<<67, 65, 80>>, <<49>>, <<110, 70>>>>, \* CAP 1 -> nF
       <<<<67, 65, 80>>, <<50>>, <<117, 70>>>>, \* CAP 2 -> uF
       <<<<67, 65, 80>>, <<51>>, <<117, 70>>>>, \* CAP 3 -> uF
       <<<<67, 65, 80>>, <<52>>, <<117, 70>>>>, \* CAP 4 -> uF
       <<<<67, 65, 80>>, <<53>>, <<109, 70>>>>, \* CAP 5 -> mF
       <<<<67, 65, 80>>, <<54>>, <<109, 70>>>>, \* CAP 6 -> mF
       <<<<67, 65, 80>>, <<55>>, <<109, 70>>>>, \* CAP 7 -> mF
       <<<<67, 79, 78, 84>>, <<48>>, <<937>>>>, \* CONT 0 -> Ohm
       <<<<68, 67, 65>>, <<49>>, <<65>>>>, \* DCA 1 -> A
       <<<<68, 67, 86>>, <<48>>, <<86>>>>, \* DCV 0 -> V
       <<<<68, 67, 86>>, <<49>>, <<86>>>>, \* DCV 1 -> V
       <<<<68, 67, 86>>, <<50>>, <<86>>>>, \* DCV 2 -> V
       <<<<68, 67, 86>>, <<51>>, <<86>>>>, \* DCV 3 -> V
       <<<<68, 67, 109, 65>>, <<48>>, <<109, 65>>>>, \* DCmA 0 -> mA
       <<<<68, 67, 109, 65>>, <<49>>, <<109, 65>>>>, \* DCmA 1 -> mA
       <<<<68, 67, 109, 86>>, <<48>>, <<109, 86>>>>, \* DCmV 0 -> mV
       <<<<68, 67, 117, 65>>, <<48>>, <<117, 65>>>>, \* DCuA 0 -> uA
       <<<<68, 67, 117, 65>>, <<49>>, <<117, 65>>>>, \* DCuA 1 -> uA
       <<<<68, 73, 68, 79, 69>>, <<48>>, <<86>>>>, \* DIDOE 0 -> V
       <<<<72, 122>>, <<48>>, <<72, 122>>>>, \* Hz 0 -> Hz
       <<<<72, 122>>, <<49>>, <<72, 122>>>>, \* Hz 1 -> Hz
       <<<<72, 122>>, <<50>>, <<107, 72, 122>>>>, \* Hz 2 -> kHz
       <<<<72, 122>>, <<51>>, <<107, 72, 122>>>>, \* Hz 3 -> kHz
       <<<<72, 122>>, <<52>>, <<107, 72, 122>>>>, \* Hz 4 -> kHz
       <<<<72, 122>>, <<53>>, <<77, 72, 122>>>>, \* Hz 5 -> MHz
       <<<<72, 122>>, <<54>>, <<77, 72, 122>>>>, \* Hz 6 -> MHz
       <<<<72, 122>>, <<55>>, <<77, 72, 122>>>>, \* Hz 7 -> MHz
       <<<<76, 80, 70>>, <<48>>, <<86>>>>, \* LPF 0 -> V
       <<<<76, 80, 70>>, <<49>>, <<86>>>>, \* LPF 1 -> V
       <<<<76, 80, 70>>, <<50>>, <<86>>>>, \* LPF 2 -> V
       <<<<76, 80, 70>>, <<51>>, <<86>>>>, \* LPF 3 -> V
       <<<<76, 111, 122, 86>>, <<48>>, <<86>>>>, \* LozV 0 -> V
       <<<<76, 111, 122, 86>>, <<49>>, <<86>>>>, \* LozV 1 -> V
       <<<<76, 111, 122, 86>>, <<50>>, <<86>>>>, \* LozV 2 -> V
       <<<<76, 111, 122, 86>>, <<51>>, <<86>>>>, \* LozV 3 -> V
       <<<<79, 72, 77>>, <<48>>, <<937>>>>, \* OHM 0 -> Ohm
       <<<<79, 72, 77>>, <<49>>, <<107, 937>>>>, \* OHM 1 -> kOhm
       <<<<79, 72, 77>>, <<50>>, <<107, 937>>>>, \* OHM 2 -> kOhm
       <<<<79, 72, 77>>, <<51>>, <<107, 937>>>>, \* OHM 3 -> kOhm
       <<<<79, 72, 77>>, <<52>>, <<77, 937>>>>, \* OHM 4 -> MOhm
       <<<<79, 72, 77>>, <<53>>, <<77, 937>>>>, \* OHM 5 -> MOhm
       <<<<79, 72, 77>>, <<54>>, <<77, 937>>>>, \* OHM 6 -> MOhm
       <<<<176, 67>>, <<48>>, <<176, 67>>>>, \* deg C 0 -> deg C
       <<<<176, 67>>, <<49>>, <<176, 67>>>>, \* deg C 1 -> deg C
       <<<<176, 70>>, <<48>>, <<176, 70>>>>, \* deg F 0 -> deg F
       <<<<176, 70>>, <<49>>, <<176, 70>>>>, \* deg F 1 -> deg F
       <<<<72, 70, 69>>, <<48>>, <<66>>>>, \* HFE 0 -> B
       <<<<78, 67, 86>>, <<48>>, <<78, 67, 86>>>> \* NCV 0 -> NCV
    }

\* the text "Unknown"
UNKNOWN == <<85, 110, 107, 110, 111, 119, 110>>

\* number of entries of MODE
ModeCount == 31

\* one past the largest u16
U16 == 65536

\* MODE.get(bytes[0] as usize): the entry's index, None past the table
MODE_get(b) == IF b < ModeCount THEN Some(b) ELSE None

\* MODE.get(..).unwrap_or(&"Unknown")
mode_name(b) == IF MODE_get(b) = None THEN UNKNOWN ELSE MODE[MODE_get(b)[1] + 1]

\* get_unit with the range byte read as a number: the bytes 0..9 count as
\* the digits '0'..'9'
get_unit_numeric(mode, range) ==
    LET r == IF Len(range) = 1 /\ range[1] < 10 THEN <<48 + range[1]>> ELSE range
    IN  IF \E e \in UnitTable : e[1] = mode /\ e[2] = r
        THEN Some((CHOOSE e \in UnitTable : e[1] = mode /\ e[2] = r)[3])
        ELSE None

\* get_unit: the unit of the first arm that matches (mode, range)
get_unit(mode, range) ==
    IF \E e \in UnitTable : e[1] = mode /\ e[2] = range
    THEN Some((CHOOSE e \in UnitTable : e[1] = mode /\ e[2] = range)[3])
    ELSE None

\* an overload test that knows the unsigned texts only
is_overload_unsigned(value) == value \in { v \in OVERLOAD : v[1] # 45 }

\* is_overload: OVERLOAD.contains(&value)
is_overload(value) == value \in OVERLOAD

\* is_ncv: NCV.contains(&value)
is_ncv(value) == value \in NCV

\* bytes[9] * 10 + bytes[10] computed in u8
progres_u8(bytes) == (bytes[10] * 10 + bytes[11]) % 256

\* bytes[9] as u16 * 10 + bytes[10] as u16 (Rust indices from 0)
progres(bytes) == bytes[10] * 10 + bytes[11]

\* b & mask > 0 for a mask of one bit
BitAnd(b, mask) == (b \div mask) % 2 = 1

DIGITS == 48..57
PLUS == 43
MINUS == 45
POINT == 46

IsDigits(t) == \A i \in 1..Len(t) : t[i] \in DIGITS

\* the number a text of digits denotes
RECURSIVE DigitsValue(_)
DigitsValue(t) ==
    IF t = <<>> THEN 0
    ELSE DigitsValue(SubSeq(t, 1, Len(t) - 1)) * 10 + (t[Len(t)] - 48)

\* the digits of a natural number
RECURSIVE DigitsOf(_)
DigitsOf(n) == IF n < 10 THEN <<48 + n>> ELSE DigitsOf(n \div 10) \o <<48 + (n % 10)>>

\* ASCII lower case
Lower(t) == [i \in 1..Len(t) |-> IF t[i] \in 65..90 THEN t[i] + 32 ELSE t[i]]

\* mant * 10^exp with the trailing zeros of mant moved into exp
RECURSIVE Normalize(_, _)
Normalize(mant, exp) ==
    IF mant = 0 THEN [mant |-> 0, exp |-> 0]
    ELSE IF mant % 10 = 0 THEN Normalize(mant \div 10, exp + 1)
    ELSE [mant |-> mant, exp |-> exp]

\* the finite f64 of value mant * 10^exp with its sign
Finite(neg, mant, exp) ==
    [kind |-> "finite", neg |-> neg, mant |-> Normalize(mant, exp).mant,
     exp |-> Normalize(mant, exp).exp]

\* str::parse::<f64>().ok() on a text without an exponent part: an optional
\* sign, then digits with at most one point and at least one digit, or one
\* of inf, infinity, nan in any case.  A text of at most 7 characters has at
\* most 7 significant digits, which an f64 holds and prints back exactly.
parse_f64(t) ==
    LET signed == t # <<>> /\ t[1] \in {PLUS, MINUS}
        neg == signed /\ t[1] = MINUS
        u == IF signed THEN Tail(t) ELSE t
        p == FirstIndex(u, POINT)
        ip == IF p = 0 THEN u ELSE SubSeq(u, 1, p - 1)
        fp == IF p = 0 THEN <<>> ELSE SubSeq(u, p + 1, Len(u))
    IN  IF Lower(u) \in {<<105, 110, 102>>, <<105, 110, 102, 105, 110, 105, 116, 121>>}
        THEN Some([kind |-> "inf", neg |-> neg, mant |-> 0, exp |-> 0])
        ELSE IF Lower(u) = <<110, 97, 110>>
        THEN Some([kind |-> "nan", neg |-> neg, mant |-> 0, exp |-> 0])
        ELSE IF IsDigits(ip) /\ IsDigits(fp) /\ Len(ip) + Len(fp) >= 1
        THEN Some(Finite(neg, DigitsValue(ip \o fp), 0 - Len(fp)))
        ELSE None

\* {:?} of an f64: inf, NaN, or the shortest digits that give the value
\* back, as a decimal with at least one fractional digit, or with an
\* exponent below 1e-4 and from 1e16
f64_debug(v) ==
    LET sign == IF v.neg THEN <<MINUS>> ELSE <<>>
        d == DigitsOf(v.mant)
        n == Len(d)
        e10 == n + v.exp - 1
    IN  IF v.kind = "nan" THEN <<78, 97, 78>>
        ELSE IF v.kind = "inf" THEN sign \o <<105, 110, 102>>
        ELSE IF v.mant = 0 THEN sign \o <<48, POINT, 48>>
        ELSE IF e10 + 4 < 0 \/ e10 >= 16
        THEN sign \o <<d[1]>>
             \o (IF n > 1 THEN <<POINT>> \o Tail(d) ELSE <<>>)
             \o <<101>>
             \o (IF e10 < 0 THEN <<MINUS>> \o DigitsOf(0 - e10) ELSE DigitsOf(e10))
        ELSE IF v.exp >= 0
        THEN sign \o d \o [i \in 1..v.exp |-> 48] \o <<POINT, 48>>
        ELSE IF n + v.exp > 0
        THEN sign \o SubSeq(d, 1, n + v.exp) \o <<POINT>> \o SubSeq(d, n + v.exp + 1, n)
        ELSE sign \o <<48, POINT>> \o [i \in 1..(0 - (n + v.exp)) |-> 48] \o d

\* {:?} of an Option<f64>: None or Some(..)
option_f64_debug(o) ==
    IF o = None THEN <<78, 111, 110, 101>>
    ELSE <<83, 111, 109, 101, 40>> \o f64_debug(o[1]) \o <<41>>

\* {} of a bool
bool_display(b) == IF b THEN <<116, 114, 117, 101>> ELSE <<102, 97, 108, 115, 101>>

\* the struct Unit161dReading that parse builds from at least 14 bytes
Unit161dReading(bytes) ==
    LET mode == mode_name(bytes[1])
        range == from_utf8_lossy(SubSeq(bytes, 2, 2))
        display_value == Trim(from_utf8_lossy(SubSeq(bytes, 3, 9)))
        overload == is_overload(display_value)
        ncv == is_ncv(display_value)
        unit == get_unit(mode, range)
    IN  [kind |-> "Unit161dReading",
         original_bytes |-> bytes,
         mode |-> mode,
         range |-> range,
         display_value |-> display_value,
         overload |-> overload,
         ncv |-> ncv,
         decimal_value |-> IF overload \/ ncv THEN None ELSE parse_f64(display_value),
         display_unit |-> IF unit = None THEN UNKNOWN ELSE unit[1],
         progres |-> progres(bytes),
         max |-> BitAnd(bytes[12], 8),
         min |-> BitAnd(bytes[12], 4),
         hold |-> BitAnd(bytes[12], 2),
         rel |-> BitAnd(bytes[12], 1),
         auto |-> BitAnd(bytes[13], 4),
         battery |-> BitAnd(bytes[13], 2),
         hwwarning |-> BitAnd(bytes[13], 1),
         dc |-> BitAnd(bytes[14], 8),
         peak_max |-> BitAnd(bytes[14], 4),
         peak_min |-> BitAnd(bytes[14], 2),
         bar_polarity |-> BitAnd(bytes[14], 1)]

\* Unit161dReading::parse giving up on a mode byte past the table
parse_known_modes(bytes) ==
    IF Len(bytes) < MinReadingLen THEN None
    ELSE IF MODE_get(bytes[1]) = None THEN None
    ELSE Some(Unit161dReading(bytes))

\* Unit161dReading::parse: None for fewer than 14 bytes, otherwise the
\* reading built from the first 14; the u16 sum panics on overflow
parse(bytes) ==
    IF Len(bytes) < MinReadingLen THEN None
    ELSE IF progres(bytes) >= U16 THEN Some(Panicked)
    ELSE Some(Unit161dReading(bytes))

\* the texts joined with commas
RECURSIVE JoinComma(_)
JoinComma(ts) ==
    IF Len(ts) = 0 THEN <<>>
    ELSE IF Len(ts) = 1 THEN ts[1]
    ELSE ts[1] \o <<COMMA>> \o JoinComma(Tail(ts))

\* the nineteen arguments of the format! of get_csv, as formatted
csv_fields(r) ==
    << r.mode, r.range, r.display_value, bool_display(r.overload),
       bool_display(r.ncv), option_f64_debug(r.decimal_value), r.display_unit,
       DigitsOf(r.progres), bool_display(r.max), bool_display(r.min),
       bool_display(r.hold), bool_display(r.rel), bool_display(r.auto),
       bool_display(r.battery), bool_display(r.hwwarning), bool_display(r.dc),
       bool_display(r.peak_max), bool_display(r.peak_min),
       bool_display(r.bar_polarity) >>

\* Unit161dReading::get_csv
get_csv(r) == Ok(JoinComma(csv_fields(r)))

\* Unit161dReading::get_raw
get_raw(r) == Ok(r.original_bytes)

\* String::from_utf8 with the error turned into ApplicationError::General
from_utf8_or_general(data, m) ==
    IF IsUtf8(data) THEN Ok(from_utf8_lossy(data)) ELSE Err("General", m)

\* Unit161dReading::get_raw_string
get_raw_string(r) ==
    from_utf8_or_general(r.original_bytes, "Failed to convert raw bytes to string")

\* read_response giving up when a report ends before any sync byte
ReadResult_giveup(d) ==
    CASE d.out = "more" ->
           IF d.state = 0 THEN Err("Hid", "No response from HID device")
           ELSE Running
      [] d.out = "ok" -> Ok(Some(d.body))
      [] d.out = "unexpected" -> Err("Hid", "Unexpected byte")
      [] d.out = "checksum" -> Err("Hid", "Checksum mismatch")
      [] OTHER -> Panicked

\* read_response going on after a wrong byte behind 0xAB
ReadResult_resync(d) ==
    CASE d.out = "more" -> Running
      [] d.out = "ok" -> Ok(Some(d.body))
      [] d.out = "unexpected" -> Running
      [] d.out = "checksum" -> Err("Hid", "Checksum mismatch")
      [] OTHER -> Panicked

\* read_response returning None on a checksum mismatch
ReadResult_lenient(d) ==
    CASE d.out = "more" -> Running
      [] d.out = "ok" -> Ok(Some(d.body))
      [] d.out = "unexpected" -> Err("Hid", "Unexpected byte")
      [] d.out = "checksum" -> Ok(None)
      [] OTHER -> Panicked

\* what read_response returns when the for loop ended with d.out
ReadResult(d) ==
    CASE d.out = "more" -> Running
      [] d.out = "ok" -> Ok(Some(d.body))
      [] d.out = "unexpected" -> Err("Hid", "Unexpected byte")
      [] d.out = "checksum" -> Err("Hid", "Checksum mismatch")
      [] OTHER -> Panicked

\* self.read_response()?.and_then(Unit161dReading::parse) on Ok(opt)
and_then_parse(opt) == IF opt = None THEN None ELSE parse(opt[1])

-----------------------------------------------------------------------------
(* Inputs: token batches and what the device delivers *)

\* tokens tried against the opcode dialect: the twelve names and near misses
TokenSet == DOMAIN Uni161dCommand \cup {"measure", "MEASURE", "Measure ", "Unknown", ""}

\* tokens the batches of the driver specification are made of
BatchTokens == {"Measure", "Hold", "NotPeak", "measure", "Unknown"}

\* payload and checksum byte values of the decoder specification
ByteSet == {0, 1, 124, 171}

\* nonzero byte values the device sends while idle
NoiseSet == {1}

\* byte values the device sends after 0xAB
Sync2Set == {205, 171, 0}

\* values of the reserved byte 0 of a report
ReservedSet == {0, 171}

\* a frame as the meter sends it: the sum covers sync, length and payload
DeviceFrame(payload) ==
    LET l == Len(payload) + 2
        c == 171 + 205 + l + SumSeq(payload)
    IN  <<171, 205, l>> \o payload \o <<(c \div 256) % 256, c % 256>>

\* a frame whose trailing bytes are the sum of the payload bytes alone
PayloadSumFrame(payload) ==
    LET l == Len(payload) + 2
        c == SumSeq(payload)
    IN  <<171, 205, l>> \o payload \o <<(c \div 256) % 256, c % 256>>

\* the 14 bytes of a measurement (the test vector of reading/unit161d.rs)
SampleReading == <<2, 0, 49, 50, 51, 46, 52, 53, 54, 5, 0, 14, 7, 15>>

\* a measurement the device sends only behind another frame
SecondReading == [SampleReading EXCEPT ![1] = 1]

\* a short frame and a measurement, back to back
TwoFrames == DeviceFrame(<<1>>) \o DeviceFrame(SecondReading)

\* what the device delivers per report in the driver specification
DriverChunks ==
    { DeviceFrame(SampleReading),          \* a measurement
      DeviceFrame(<<1>>),                  \* a short frame: no reading
      PayloadSumFrame(SampleReading),      \* checksum mismatch
      <<171, 0>>,                          \* a wrong second sync byte
      <<171, 205, 1, 0>>,                  \* a length byte below 2
      TwoFrames,                           \* two frames in one report
      <<>> }                               \* an idle report

DriverReports(r) ==
    { [r0 |-> z, off |-> 0, chunk |-> c] : z \in ReservedSet, c \in DriverChunks }

\* the byte streams of the decoder specification, one per read_response
\* call: idle bytes, then a frame or the beginning of one
FrameStreams ==
    {<<>>, <<171>>}
    \cup { <<171, s>> : s \in Sync2Set }
    \cup UNION { { <<171, 205, l>> \o t :
                     t \in SeqsUpTo(ByteSet, IF l < 2 THEN 1 ELSE l) } :
                 l \in 0..MaxLen }

Streams == { n \o f : n \in SeqsUpTo(NoiseSet, MaxNoise), f \in FrameStreams }

\* how the device may go on after having sent s
Extensions(s) ==
    { SubSeq(t, Len(s) + 1, Len(t)) :
        t \in { u \in Streams : Len(u) >= Len(s) /\ SubSeq(u, 1, Len(s)) = s } }

\* what the device delivers per report in the decoder specification: the next
\* bytes of its stream, at the start or at the end of the report
DecoderReports(r) ==
    { [r0 |-> 171, off |-> o, chunk |-> c] :
        o \in {0, 1}, c \in Extensions(r.sent) }

\* the bytes hiddevice.read delivers for a report choice
Delivered(rep) ==
    LET lead == IF rep.off = 0 THEN 0 ELSE (ReportLen - 1) - Len(rep.chunk)
    IN  <<rep.r0>> \o Zeros(lead) \o rep.chunk

-----------------------------------------------------------------------------
(* Unit161dHid::command (communication/unit161d.rs) *)

UsbIdle ==
    /\ ucommands = <<>> /\ utok = 1 /\ upc = "idle" /\ ulog = <<>>
    /\ inflight = {} /\ held = {} /\ response = <<>> /\ uresult = Running

\* the state at the call of Unit161dHid::command on a batch of Batches
HidInit(Batches) ==
    /\ commands \in Batches
    /\ tok = 1
    /\ pc = "token"
    /\ hidlog = <<>>
    /\ state = 0 /\ buf = <<>> /\ index = 0 /\ sum = 0
    /\ rx = <<>> /\ nreads = 0 /\ sent = <<>> /\ resp = Running
    /\ measurements = <<>>
    /\ result = Running

\* one iteration of the for loop up to the call of read_response:
\* try_from, the frame, write_with_length
HidToken ==
    /\ pc = "token"
    /\ tok <= Len(commands)
    /\ LET t == try_from(commands[tok])
       IN  IF ~t.ok
           THEN /\ result' = Err(t.err, t.msg)
                /\ pc' = "done"
                /\ UNCHANGED <<tok, hidlog, state, buf, index, sum, rx, nreads,
                               sent, resp>>
           ELSE \E wrote \in BOOLEAN :
                  /\ hidlog' = Append(hidlog,
                        [op |-> "write", tok |-> tok, ok |-> wrote,
                         bytes |-> write_with_length(seq_of(t.cmd))])
                  /\ IF wrote /\ ~reads_response(t.cmd)
                     THEN /\ tok' = tok + 1
                          /\ UNCHANGED <<pc, state, buf, index, sum, rx, nreads,
                                         sent, resp, result>>
                     ELSE IF wrote
                     THEN /\ pc' = "read"
                          /\ state' = DecoderInit.state /\ buf' = DecoderInit.buf
                          /\ index' = DecoderInit.index /\ sum' = DecoderInit.sum
                          /\ rx' = <<>> /\ nreads' = 0 /\ sent' = <<>>
                          /\ resp' = Running
                          /\ UNCHANGED <<tok, result>>
                     ELSE /\ result' = Err("Hid", "Failed to write to HID device")
                          /\ pc' = "done"
                          /\ UNCHANGED <<tok, state, buf, index, sum, rx, nreads,
                                         sent, resp>>
    /\ UNCHANGED <<commands, measurements, usbvars, dialectvars, accessvars, factoryvars>>

\* one iteration of the loop of read_response: hiddevice.read and the for
\* loop over the report; when the frame is complete, the rest of the
\* iteration of command (parse, push)
HidReadStep(Reports) ==
    /\ pc = "read"
    /\ \E readok \in BOOLEAN :
         /\ hidlog' = Append(hidlog, [op |-> "read", tok |-> tok, ok |-> readok,
                                       bytes |-> <<>>])
         /\ nreads' = nreads + 1
         /\ IF ~readok
            THEN /\ resp' = Err("Hid", "Failed to read from HID device")
                 /\ result' = resp'
                 /\ pc' = "done"
                 /\ UNCHANGED <<tok, state, buf, index, sum, rx, sent, measurements>>
            ELSE \E rep \in Reports :
                   LET x == ReadBuffer(Delivered(rep))
                       fed == fed_slice(x)
                       r == FeedAll([state |-> state, buf |-> buf, index |-> index,
                                     sum |-> sum, out |-> "more", body |-> <<>>],
                                    fed, 1)
                   IN  /\ state' = r.d.state /\ buf' = r.d.buf
                       /\ index' = r.d.index /\ sum' = r.d.sum
                       /\ rx' = rx \o SubSeq(fed, 1, r.n)
                       /\ sent' = sent \o rep.chunk
                       /\ resp' = ReadResult(r.d)
                       /\ CASE resp'.kind = "Running" ->
                                 UNCHANGED <<tok, pc, measurements, result>>
                            [] resp'.kind = "Ok" ->
                                 /\ measurements' =
                                        measurements \o and_then_parse(resp'.value)
                                 /\ tok' = tok + 1
                                 /\ pc' = "token"
                                 /\ UNCHANGED result
                            [] OTHER ->
                                 /\ result' = resp'
                                 /\ pc' = "done"
                                 /\ UNCHANGED <<tok, measurements>>
    /\ UNCHANGED <<commands, usbvars, dialectvars, accessvars, factoryvars>>

\* HidReadStep for at most MaxReports reports per read_response call
HidRead(Reports) == nreads < MaxReports /\ HidReadStep(Reports)

\* the return after the for loop
HidReturn ==
    /\ pc = "token"
    /\ tok > Len(commands)
    /\ result' = Ok(Some(measurements))
    /\ pc' = "done"
    /\ UNCHANGED <<commands, tok, hidlog, state, buf, index, sum, rx, nreads,
                   sent, resp, measurements, usbvars, dialectvars, accessvars, factoryvars>>

HidReadDriver == HidRead(DriverReports([rx |-> rx, sent |-> sent]))
HidReadDecoder == HidRead(DecoderReports([rx |-> rx, sent |-> sent]))

\* the HID driver on batches of up to MaxTokens tokens, the device sending
\* whole frames
Init == HidInit(SeqsUpTo(BatchTokens, MaxTokens)) /\ UsbIdle /\ DialectIdle /\ AccessIdle /\ FactoryIdle
Next == HidToken \/ HidReadDriver \/ HidReturn
Spec == Init /\ [][Next]_vars

\* longest response body handed to Unit161dReading::parse
MaxReadingLen == 15

\* the sample reading followed by further bytes
LongReading == SampleReading \o [i \in 1..MaxReadingLen |-> 48 + i]

\* one byte of a body replaced
WithByte(b, i, v) == [b EXCEPT ![i] = v]

\* response bodies of every length up to MaxReadingLen: all zero, all 255,
\* the sample cut or extended to the length, and the sample with one byte
\* replaced by 255
ReadingInputs ==
    UNION { { [i \in 1..n |-> 0], [i \in 1..n |-> 255], SubSeq(LongReading, 1, n) }
            \cup { WithByte(SubSeq(LongReading, 1, n), i, 255) : i \in 1..n }
            : n \in 0..MaxReadingLen }

PadRight(t, n) == t \o [i \in 1..(n - Len(t)) |-> SPACE]
PadLeft(t, n) == [i \in 1..(n - Len(t)) |-> SPACE] \o t

\* what the display may show: the overload and detector texts, texts that
\* nearly are, and numbers
DisplayTexts ==
    OVERLOAD \cup NCV
    \cup { <<111, 108>>,                       \* ol
           <<79, 76, 46, 46>>,                 \* OL..
           <<79, 32, 76>>,                     \* O L
           <<48, 76>>,                         \* 0L
           <<45, 69, 70>>,                     \* -EF
           <<69, 70, 46>>,                     \* EF.
           <<45, 45, 45, 45, 45, 45>>,         \* ------
           <<45, 46>>,                         \* -.
           <<>>,                               \* nothing
           <<49, 50, 51, 46, 52, 53>>,         \* 123.45
           <<45, 49, 46, 53>>,                 \* -1.5
           <<43, 50>>,                         \* +2
           <<48, 46, 48, 48>>,                 \* 0.00
           <<45, 48>>,                         \* -0
           <<46, 53>>,                         \* .5
           <<53, 46>>,                         \* 5.
           <<46>>,                             \* .
           <<46, 48, 48, 48, 48, 49>>,         \* .00001
           <<49, 46, 50, 46, 51>>,             \* 1.2.3
           <<49, 32, 50>>,                     \* 1 2
           <<49, 44, 53>>,                     \* 1,5
           <<110, 97, 110>>,                   \* nan
           <<45, 73, 110, 102>> }              \* -Inf

\* the seven display bytes: a text padded with spaces on either side, and
\* fields with other white space, with bytes that are no UTF-8 and with a
\* two-byte character
DisplayFields ==
    { PadRight(t, 7) : t \in DisplayTexts }
    \cup { PadLeft(t, 7) : t \in DisplayTexts }
    \cup { <<9, 79, 76, 10, 13, 11, 12>>,       \* OL between tab and line ends
           <<79, 76, 194, 160, 32, 32, 32>>,   \* OL and a no-break space
           <<0, 79, 76, 32, 32, 32, 32>>,      \* OL behind a NUL
           <<255, 79, 76, 32, 32, 32, 32>>,    \* OL behind a byte that is no UTF-8
           <<49, 46, 53, 0, 0, 0, 0>>,         \* 1.5 and NULs
           <<49, 194, 176, 67, 32, 32, 32>> }  \* 1 and a degree sign

\* the sample reading with the display bytes d
WithDisplay(d) == SubSeq(SampleReading, 1, 2) \o d \o SubSeq(SampleReading, 10, 14)

\* mode bytes: the table, the first byte past it and the last byte
ModeBytes == 0..ModeCount \cup {255}

\* range bytes: the digits 0 to 8, a NUL, a comma and a byte that is no UTF-8
RangeBytes == 48..56 \cup {0, COMMA, 255}

\* bytes of the two bytes progres is made of
ProgresBytes == {0, 9, 25, 26, 255}

\* bodies of 14 bytes: the sample reading with other display bytes, with
\* other mode and range bytes, with any one flag byte, and with other
\* progres bytes
FieldInputs ==
    { WithDisplay(d) : d \in DisplayFields }
    \cup { [SampleReading EXCEPT ![1] = m, ![2] = r] : m \in ModeBytes, r \in RangeBytes }
    \cup { WithByte(SampleReading, i, v) : i \in 12..14, v \in 0..255 }
    \cup { [SampleReading EXCEPT ![10] = a, ![11] = b] : a, b \in ProgresBytes }

\* the device answering a Measure with one whole frame around a body
ReadingReports ==
    { [r0 |-> 0, off |-> 0, chunk |-> DeviceFrame(b)] :
        b \in ReadingInputs \cup FieldInputs }

HidReadReading == HidRead(ReadingReports)

\* the HID driver on a single Measure, the device answering with a frame of
\* any body
InitReading == HidInit({<<"Measure">>}) /\ UsbIdle /\ DialectIdle /\ AccessIdle /\ FactoryIdle
NextReading == HidToken \/ HidReadReading \/ HidReturn
SpecReading == InitReading /\ [][NextReading]_vars

\* the length bytes of the long frames
SumLengths == 2..255

\* the values a long frame's payload is filled with, report by report
FillBytes == {0, 255}

\* the frame bytes in sent: sent from its 0xAB
FrameSent ==
    IF FirstIndex(sent, 171) = 0 THEN <<>>
    ELSE SubSeq(sent, FirstIndex(sent, 171), Len(sent))

\* bytes n0+1 .. n0+k of a frame of length byte l whose first n0 bytes are f:
\* payload bytes v, then the two bytes of the sum of what precedes them
\* (of that sum plus 1 when good is false)
FrameBytes(f, l, k, v, good) ==
    LET n0 == Len(f)
        t == 3 + l
        old == IF n0 < t - 2 THEN n0 ELSE t - 2
        new == IF n0 + k < t - 2 THEN k
               ELSE IF n0 < t - 2 THEN (t - 2) - n0 ELSE 0
        s == SumRange(f, 1, old) + new * v + (IF good THEN 0 ELSE 1)
    IN  [i \in 1..k |->
           IF n0 + i <= t - 2 THEN v
           ELSE IF n0 + i = t - 1 THEN (s \div 256) % 256
           ELSE s % 256]

\* what the device delivers per report when it answers with one long frame:
\* at first zero or one zero byte, 0xAB 0xCD, a length byte and as much of
\* the frame as the report holds, then report after report the rest
SumReports ==
    IF FrameSent = <<>>
    THEN { [r0 |-> 0, off |-> 0,
            chunk |-> Zeros(z) \o <<171, 205, l>> \o
                      FrameBytes(<<171, 205, l>>, l,
                                 IF l < 60 - z THEN l ELSE 60 - z, v, good)] :
             z \in {0, 1}, l \in SumLengths, v \in FillBytes, good \in BOOLEAN }
    ELSE LET l == FrameSent[3]
             left == (3 + l) - Len(FrameSent)
         IN  { [r0 |-> 0, off |-> 0,
                chunk |-> FrameBytes(FrameSent, l,
                                     IF left < ReportLen - 1 THEN left
                                     ELSE ReportLen - 1, v, good)] :
                 v \in FillBytes, good \in BOOLEAN }

HidReadSum == HidReadStep(SumReports)

\* the HID driver on a single Measure, the device answering with one frame
\* of any length byte from 2 up, over as many reports as the frame takes
InitSum == HidInit({<<"Measure">>}) /\ UsbIdle /\ DialectIdle /\ AccessIdle /\ FactoryIdle
NextSum == HidToken \/ HidReadSum \/ HidReturn
SpecSum == InitSum /\ [][NextSum]_vars

\* the HID driver on a single Measure, the device sending arbitrary bytes
InitDecoder == HidInit({<<"Measure">>}) /\ UsbIdle /\ DialectIdle /\ AccessIdle /\ FactoryIdle
NextDecoder == HidToken \/ HidReadDecoder \/ HidReturn
SpecDecoder == InitDecoder /\ [][NextDecoder]_vars

-----------------------------------------------------------------------------
(* ScpiUsb::command (communication/scpiusb.rs).  Text is a sequence of     *)
(* ASCII codes.                                                            *)

\* longest batch of tokens handed to the USB driver
MaxUsbTokens == 2

NL == 10          \* '\n'
QUOTE == 34       \* '"'
QMARK == 63       \* '?'
BACKSLASH == 92   \* '\'

\* longest text the pure functions of the dialects are evaluated on
MaxTextLen == 3

\* the texts the pure functions of the raw dialect are evaluated on
RawTexts == SeqsUpTo({77, QMARK, NL}, MaxTextLen)

\* tokens of the USB batches: "M", "M?", "?M", "M\n", "M?\n", ""
UsbTokens == { <<77>>, <<77, QMARK>>, <<QMARK, 77>>, <<77, NL>>,
               <<77, QMARK, NL>>, <<>> }

\* TransferError values a completion may carry, by their Debug text
TransferErrors == { <<83, 116, 97, 108, 108>>,            \* Stall
                    <<70, 97, 117, 108, 116>> }           \* Fault

\* what an IN transfer may deliver
InData == { <<>>, <<49, NL>> }

RECURSIVE Flatten(_)
Flatten(ss) == IF ss = <<>> THEN <<>> ELSE Head(ss) \o Flatten(Tail(ss))

\* whether text t occurs in text m
Contains(m, t) ==
    \E i \in 1..(Len(m) - Len(t) + 1) : SubSeq(m, i, i + Len(t) - 1) = t

\* {:?} of one char of a String
DebugChar(c) ==
    CASE c = NL -> <<BACKSLASH, 110>>
      [] c = QUOTE -> <<BACKSLASH, QUOTE>>
      [] c = BACKSLASH -> <<BACKSLASH, BACKSLASH>>
      [] OTHER -> <<c>>

\* {:?} of a String: quoted, with escapes
DebugStr(t) ==
    <<QUOTE>> \o Flatten([i \in 1..Len(t) |-> DebugChar(t[i])]) \o <<QUOTE>>

\* "Failed to send command "
SendPrefix == <<70, 97, 105, 108, 101, 100, 32, 116, 111, 32, 115, 101, 110,
                100, 32, 99, 111, 109, 109, 97, 110, 100, 32>>

\* "Failed to read response for command "
ReadPrefix == <<70, 97, 105, 108, 101, 100, 32, 116, 111, 32, 114, 101, 97,
                100, 32, 114, 101, 115, 112, 111, 110, 115, 101, 32, 102, 111,
                114, 32, 99, 111, 109, 109, 97, 110, 100, 32>>

\* a message that leaves the token out
SendErrorMsg_anonymous(command, e) == SendPrefix \o e

\* format!("Failed to send command {:?}: {:?}", command, e)
SendErrorMsg(command, e) == SendPrefix \o DebugStr(command) \o <<58, 32>> \o e

\* format!("Failed to read response for command {:?}: {:?}", command, e)
ReadErrorMsg(command, e) == ReadPrefix \o DebugStr(command) \o <<58, 32>> \o e

\* a payload that gets a newline whatever the token ends with
command_bytes_always(command) == Append(command, NL)

\* command_bytes: the payload of the OUT transfer
command_bytes(command) ==
    IF command # <<>> /\ command[Len(command)] = NL
    THEN command
    ELSE Append(command, NL)

\* a driver that reads only when the token ends with '?'
contains_qmark_last(command) ==
    command # <<>> /\ command[Len(command)] = QMARK

\* command.contains('?')
contains_qmark(command) == \E i \in 1..Len(command) : command[i] = QMARK

\* a reading that drops the bytes it was given
get_reading_empty(data) == [kind |-> "ScpiRawReading", data |-> <<>>]

\* get_reading: the opaque reading
get_reading(data) == [kind |-> "ScpiRawReading", data |-> data]

HidIdle ==
    /\ commands = <<>> /\ tok = 1 /\ pc = "idle" /\ hidlog = <<>>
    /\ state = 0 /\ buf = <<>> /\ index = 0 /\ sum = 0
    /\ rx = <<>> /\ nreads = 0 /\ sent = <<>> /\ resp = Running
    /\ measurements = <<>> /\ result = Running

\* the state at the call of ScpiUsb::command
UsbInit ==
    /\ ucommands \in SeqsUpTo(UsbTokens, MaxUsbTokens)
    /\ utok = 1 /\ upc = "open" /\ ulog = <<>>
    /\ inflight = {} /\ held = {} /\ response = <<>> /\ uresult = Running

\* an early return that keeps the device handle and the interface
UsbFail_leak(e, m) ==
    /\ uresult' = Err(e, m)
    /\ upc' = "done"
    /\ UNCHANGED held

\* an early return through `?` or `return Err(..)`: the locals (endpoints,
\* interface, device handle) are dropped
UsbFail(e, m) ==
    /\ uresult' = Err(e, m)
    /\ upc' = "done"
    /\ held' = {}

\* self.device.open().await
UsbOpen ==
    /\ upc = "open"
    /\ \E ok \in BOOLEAN :
         IF ok THEN /\ held' = {"device"}
                    /\ upc' = "claim"
                    /\ UNCHANGED uresult
         ELSE UsbFail("Usb", <<>>)
    /\ UNCHANGED <<ucommands, utok, ulog, inflight, response, hidvars, dialectvars, accessvars, factoryvars>>

\* open_device.claim_interface(..).await
UsbClaim ==
    /\ upc = "claim"
    /\ \E ok \in BOOLEAN :
         IF ok THEN /\ held' = held \cup {"interface"}
                    /\ upc' = "endpoints"
                    /\ UNCHANGED uresult
         ELSE UsbFail("Usb", <<>>)
    /\ UNCHANGED <<ucommands, utok, ulog, inflight, response, hidvars, dialectvars, accessvars, factoryvars>>

\* interface.endpoint::<Bulk, Out>(..) and interface.endpoint::<Bulk, In>(..)
UsbEndpoints ==
    /\ upc = "endpoints"
    /\ \E ok \in BOOLEAN :
         IF ok THEN /\ upc' = "submit_out"
                    /\ UNCHANGED <<held, uresult>>
         ELSE UsbFail("Usb", <<>>)
    /\ UNCHANGED <<ucommands, utok, ulog, inflight, response, hidvars, dialectvars, accessvars, factoryvars>>

\* the top of the for loop: endpoint_out.submit(buffer)
UsbSubmitOut ==
    /\ upc = "submit_out"
    /\ utok <= Len(ucommands)
    /\ inflight' = inflight \cup {[ep |-> "out", tok |-> utok]}
    /\ ulog' = Append(ulog, [ev |-> "submit", ep |-> "out", tok |-> utok,
                             bytes |-> command_bytes(ucommands[utok]),
                             data |-> <<>>])
    /\ upc' = "await_out"
    /\ UNCHANGED <<ucommands, utok, held, response, uresult, hidvars, dialectvars, accessvars, factoryvars>>

\* endpoint_out.next_complete().await and the match on its status
UsbAwaitOut ==
    /\ upc = "await_out"
    /\ \E st \in {<<>>} \cup TransferErrors :
         /\ inflight' = inflight \ {[ep |-> "out", tok |-> utok]}
         /\ ulog' = Append(ulog, [ev |-> "complete", ep |-> "out", tok |-> utok,
                                  bytes |-> st, data |-> <<>>])
         /\ IF st # <<>>
            THEN /\ UsbFail("Command", SendErrorMsg(ucommands[utok], st))
                 /\ UNCHANGED utok
            ELSE IF contains_qmark(ucommands[utok])
            THEN /\ upc' = "submit_in"
                 /\ UNCHANGED <<utok, held, uresult>>
            ELSE /\ upc' = "submit_out"
                 /\ utok' = utok + 1
                 /\ UNCHANGED <<held, uresult>>
    /\ UNCHANGED <<ucommands, response, hidvars, dialectvars, accessvars, factoryvars>>

\* endpoint_in.submit(read_buffer)
UsbSubmitIn ==
    /\ upc = "submit_in"
    /\ inflight' = inflight \cup {[ep |-> "in", tok |-> utok]}
    /\ ulog' = Append(ulog, [ev |-> "submit", ep |-> "in", tok |-> utok,
                             bytes |-> <<>>, data |-> <<>>])
    /\ upc' = "await_in"
    /\ UNCHANGED <<ucommands, utok, held, response, uresult, hidvars, dialectvars, accessvars, factoryvars>>

\* endpoint_in.next_complete().await, the match on its status, the push
UsbAwaitIn ==
    /\ upc = "await_in"
    /\ \E st \in {<<>>} \cup TransferErrors : \E data \in InData :
         /\ inflight' = inflight \ {[ep |-> "in", tok |-> utok]}
         /\ ulog' = Append(ulog, [ev |-> "complete", ep |-> "in", tok |-> utok,
                                  bytes |-> st,
                                  data |-> IF st = <<>> THEN data ELSE <<>>])
         /\ IF st # <<>>
            THEN /\ UsbFail("Command", ReadErrorMsg(ucommands[utok], st))
                 /\ UNCHANGED <<utok, response>>
            ELSE /\ response' = Append(response, get_reading(data))
                 /\ upc' = "submit_out"
                 /\ utok' = utok + 1
                 /\ UNCHANGED <<held, uresult>>
    /\ UNCHANGED <<ucommands, hidvars, dialectvars, accessvars, factoryvars>>

\* the return after the for loop
UsbReturn ==
    /\ upc = "submit_out"
    /\ utok > Len(ucommands)
    /\ uresult' = Ok(IF response = <<>> THEN None ELSE Some(response))
    /\ upc' = "done"
    /\ held' = {}
    /\ UNCHANGED <<ucommands, utok, ulog, inflight, response, hidvars, dialectvars, accessvars, factoryvars>>

\* the USB bulk driver on batches of up to MaxUsbTokens tokens
InitUsb == HidIdle /\ UsbInit /\ DialectIdle /\ AccessIdle /\ FactoryIdle
NextUsb == \/ UsbOpen \/ UsbClaim \/ UsbEndpoints \/ UsbSubmitOut
           \/ UsbAwaitOut \/ UsbSubmitIn \/ UsbAwaitIn \/ UsbReturn
SpecUsb == InitUsb /\ [][NextUsb]_vars

-----------------------------------------------------------------------------
(* The structured waveform dialect (peaktech4055mv/instrumentation.rs) *)

APPLY_PREFIX == <<65, 112, 112, 108, 121, 58>>     \* "Apply:"
RAW_PREFIX == <<82, 97, 119, 58>>                  \* "Raw:"
RESET_TOKEN == <<82, 101, 115, 101, 116>>          \* "Reset"
RST_COMMAND == <<42, 82, 83, 84, 10>>              \* "*RST\n"

\* enum Waveform, each variant with the text of its name ({:?})
Waveform ==
    [ Sin |-> <<83, 105, 110>>,
      Squ |-> <<83, 113, 117>>,
      Ramp |-> <<82, 97, 109, 112>>,
      Noise |-> <<78, 111, 105, 115, 101>>,
      PPulse |-> <<80, 80, 117, 108, 115, 101>>,
      NPulse |-> <<78, 80, 117, 108, 115, 101>>,
      Stair |-> <<83, 116, 97, 105, 114>>,
      HSine |-> <<72, 83, 105, 110, 101>>,
      LSine |-> <<76, 83, 105, 110, 101>>,
      Rexp |-> <<82, 101, 120, 112>>,
      RLog |-> <<82, 76, 111, 103>>,
      Tang |-> <<84, 97, 110, 103>>,
      Sinc |-> <<83, 105, 110, 99>>,
      Round |-> <<82, 111, 117, 110, 100>>,
      Card |-> <<67, 97, 114, 100>>,
      Quake |-> <<81, 117, 97, 107, 101>> ]

CommandErr(m) == [ok |-> FALSE, err |-> "Command", msg |-> m]
CommandOk(c) == [ok |-> TRUE, cmd |-> c]

\* Apply::parse without the limit of three fields
Apply_parse_anyfields(cmd) ==
    LET parts == Split(DropFirst(cmd, Len(APPLY_PREFIX)), COMMA)
        words == Split(parts[1], SPACE)
        waveform_str == Trim(words[1])
        frequency == IF Len(words) >= 2 THEN Some(Trim(words[2])) ELSE None
        amplitude == IF Len(parts) >= 2 THEN Some(Trim(parts[2])) ELSE None
        offset == IF Len(parts) >= 3 THEN Some(Trim(parts[3])) ELSE None
    IN  IF \A w \in DOMAIN Waveform : Waveform[w] # waveform_str
        THEN CommandErr(<<"Unknown waveform: ", waveform_str>>)
        ELSE IF amplitude # None /\ frequency = None
        THEN CommandErr("Frequency cannot be empty if provided")
        ELSE CommandOk([kind |-> "Apply",
                        waveform |-> CHOOSE w \in DOMAIN Waveform :
                                         Waveform[w] = waveform_str,
                        frequency |-> frequency,
                        amplitude |-> amplitude,
                        offset |-> offset])

\* Peaktech4055mvCommandApply::parse
Apply_parse(cmd) ==
    LET parts == Split(DropFirst(cmd, Len(APPLY_PREFIX)), COMMA)
        words == Split(parts[1], SPACE)
        waveform_str == Trim(words[1])
        frequency == IF Len(words) >= 2 THEN Some(Trim(words[2])) ELSE None
        amplitude == IF Len(parts) >= 2 THEN Some(Trim(parts[2])) ELSE None
        offset == IF Len(parts) >= 3 THEN Some(Trim(parts[3])) ELSE None
    IN  IF \A w \in DOMAIN Waveform : Waveform[w] # waveform_str
        THEN CommandErr(<<"Unknown waveform: ", waveform_str>>)
        ELSE IF Len(parts) > 3
        THEN CommandErr("Too many parameters for Apply command")
        ELSE IF waveform_str = <<>>
        THEN CommandErr("Waveform type is required for Apply command")
        ELSE IF amplitude # None /\ frequency = None
        THEN CommandErr("Frequency cannot be empty if provided")
        ELSE IF offset # None /\ amplitude = None
        THEN CommandErr("Amplitude cannot be empty if provided")
        ELSE CommandOk([kind |-> "Apply",
                        waveform |-> CHOOSE w \in DOMAIN Waveform :
                                         Waveform[w] = waveform_str,
                        frequency |-> frequency,
                        amplitude |-> amplitude,
                        offset |-> offset])

\* an Apply serialization with bare commas between the fields
Apply_to_command_string_bare(c) ==
    APPLY_PREFIX \o Waveform[c.waveform]
    \o (IF c.frequency # None THEN <<SPACE>> \o c.frequency[1] ELSE <<>>)
    \o (IF c.amplitude # None THEN <<COMMA>> \o c.amplitude[1] ELSE <<>>)
    \o (IF c.offset # None THEN <<COMMA>> \o c.offset[1] ELSE <<>>)
    \o <<NL>>

\* Peaktech4055mvCommandApply::to_command_string
Apply_to_command_string(c) ==
    APPLY_PREFIX \o Waveform[c.waveform]
    \o (IF c.frequency # None THEN <<SPACE>> \o c.frequency[1] ELSE <<>>)
    \o (IF c.amplitude # None THEN <<COMMA, SPACE>> \o c.amplitude[1] ELSE <<>>)
    \o (IF c.offset # None THEN <<COMMA, SPACE>> \o c.offset[1] ELSE <<>>)
    \o <<NL>>

\* Peaktech4055mvCommandReset::parse
Reset_parse(cmd) == CommandOk([kind |-> "Reset"])

\* Peaktech4055mvCommandRaw::parse
Raw_parse(cmd) ==
    CommandOk([kind |-> "Raw", command |-> Append(Remove(cmd, RAW_PREFIX), NL)])

\* to_command_string of the three commands
to_command_string(c) ==
    CASE c.kind = "Apply" -> Apply_to_command_string(c)
      [] c.kind = "Reset" -> RST_COMMAND
      [] c.kind = "Raw" -> c.command

\* a conversion that takes Reset with surrounding whitespace as well
peaktech_try_from_trimmed(value) ==
    IF StartsWith(value, APPLY_PREFIX) THEN Apply_parse(value)
    ELSE IF Trim(value) = RESET_TOKEN THEN Reset_parse(value)
    ELSE Raw_parse(value)

\* impl TryFrom<String> for Box<dyn Peaktech4055mvCommand>
peaktech_try_from(value) ==
    IF StartsWith(value, APPLY_PREFIX) THEN Apply_parse(value)
    ELSE IF value = RESET_TOKEN THEN Reset_parse(value)
    ELSE Raw_parse(value)

-----------------------------------------------------------------------------
(* The raw dialect as a Command (command/scpiraw.rs) *)

\* impl TryFrom<String> for Box<dyn Command>
scpiraw_try_from(value) == CommandOk([kind |-> "ScpiRaw", command |-> value])

\* ScpiRawCommand::to_command
to_command(c) == Append(c.command, NL)

\* ScpiRawCommand::is_query
is_query(c) == c.command # <<>> /\ c.command[Len(c.command)] = QMARK

-----------------------------------------------------------------------------
(* The drivers that parse the whole batch first: Peaktech4055mv::command   *)
(* (peaktech4055mv/instrumentation.rs) and the ScpiUsb::command of         *)
(* scpiusb/communication.rs                                                *)

\* longest batch of tokens handed to these drivers
MaxDialectTokens == 2
\* pieces a token of the waveform dialect is put together from
MaxChunks == 5
\* longest field of a canonical Apply token
MaxFieldLen == 1


\* the pieces of the Apply bodies: "Sin", " ", ",", "1"
ApplyChunks == {Waveform.Sin, <<SPACE>>, <<COMMA>>, <<49>>}

\* the pieces of the other tokens: "Raw:", "Reset", "X", " "
OtherChunks == {RAW_PREFIX, RESET_TOKEN, <<88>>, <<SPACE>>}

\* field texts of the canonical Apply tokens, over '1', 'k' and '\n'
FieldTexts == SeqsUpTo({49, 107, NL}, MaxFieldLen) \ {<<>>}

\* 'Apply:W', 'Apply:W f', 'Apply:W f, a', 'Apply:W f, a, o'
ApplyToken(w, fields) ==
    APPLY_PREFIX \o Waveform[w]
    \o (IF Len(fields) >= 1 THEN <<SPACE>> \o fields[1] ELSE <<>>)
    \o (IF Len(fields) >= 2 THEN <<COMMA, SPACE>> \o fields[2] ELSE <<>>)
    \o (IF Len(fields) >= 3 THEN <<COMMA, SPACE>> \o fields[3] ELSE <<>>)

\* the canonical Apply tokens: two waveforms with every choice of fields,
\* every waveform with the fields "1"
CanonicalApply ==
    { ApplyToken(w, fs) : w \in {"Sin", "Quake"}, fs \in SeqsUpTo(FieldTexts, 3) }
    \cup { ApplyToken(w, fs) : w \in DOMAIN Waveform, fs \in SeqsUpTo({<<49>>}, 3) }

\* further tokens: other case, a newline at the end, the tokens of the tests
ExtraTokens ==
    {
      \* Apply:sin
      <<65, 112, 112, 108, 121, 58, 115, 105, 110>>,
      \* Apply:Sin\n
      <<65, 112, 112, 108, 121, 58, 83, 105, 110, 10>>,
      \* Apply:Sin 10kHz, 1.2, 0.5
      <<65, 112, 112, 108, 121, 58, 83, 105, 110, 32, 49, 48, 107, 72,
        122, 44, 32, 49, 46, 50, 44, 32, 48, 46, 53>>,
      \* Apply:Squ 10kHz, 1.5
      <<65, 112, 112, 108, 121, 58, 83, 113, 117, 32, 49, 48, 107, 72,
        122, 44, 32, 49, 46, 53>>,
      \* Apply:Squ
      <<65, 112, 112, 108, 121, 58, 83, 113, 117>>,
      \* Apply:Sin, 10kHz,,
      <<65, 112, 112, 108, 121, 58, 83, 105, 110, 44, 32, 49, 48, 107, 72,
        122, 44, 44>>,
      \* Apply:Sin 10kHz,, 0.5
      <<65, 112, 112, 108, 121, 58, 83, 105, 110, 32, 49, 48, 107, 72,
        122, 44, 44, 32, 48, 46, 53>>,
      \* Apply:Sin 2 kHz, 5.2
      <<65, 112, 112, 108, 121, 58, 83, 105, 110, 32, 50, 32, 107, 72,
        122, 44, 32, 53, 46, 50>>,
      \* Raw:Apply:Sin 10kHz, 1.2, 0.5
      <<82, 97, 119, 58, 65, 112, 112, 108, 121, 58, 83, 105, 110, 32, 49,
        48, 107, 72, 122, 44, 32, 49, 46, 50, 44, 32, 48, 46, 53>>,
      \* reset
      <<114, 101, 115, 101, 116>> }

\* the tokens of the waveform dialect, one per call
DialectTexts ==
    CanonicalApply \cup ExtraTokens
    \cup { APPLY_PREFIX \o Flatten(cs) : cs \in SeqsUpTo(ApplyChunks, MaxChunks) }
    \cup { Flatten(cs) : cs \in SeqsUpTo(OtherChunks, MaxChunks) }

\* tokens of the batches of several tokens: "Apply:Sin 1", "Reset", "Raw:X",
\* "X?", "Apply:sin", "Apply:Sin,1"
PeakTokens ==
    { ApplyToken("Sin", << <<49>> >>), RESET_TOKEN, RAW_PREFIX \o <<88>>,
      <<88, QMARK>>,
      <<65, 112, 112, 108, 121, 58, 115, 105, 110>>, APPLY_PREFIX \o Waveform.Sin \o <<COMMA, 49>> }

\* tokens of the batches of the raw dialect: "M", "M?", "?M", "M?\n"
ScpiTokens == { <<77>>, <<77, QMARK>>, <<QMARK, 77>>, <<77, QMARK, NL>> }

\* what an IN transfer may deliver: nothing, "1\n", a byte that is no UTF-8
ScpiInData == { <<>>, <<49, NL>>, <<255>> }

\* impl Debug for ScpiRawCommand: "ScpiRawCommand: {command}"
ScpiRawCommand_fmt(c) ==
    <<83, 99, 112, 105, 82, 97, 119, 67, 111, 109, 109, 97, 110, 100, 58, 32>> \o c.command

\* ScpiUsb::get_reading of scpiusb/communication.rs
get_reading_strings(data) == [kind |-> "ScpiRawReading", data |-> data]

\* cmd.clone().try_into() of the driver d
DialectTryFrom(d, value) ==
    IF d = "Peaktech4055mv" THEN peaktech_try_from(value)
    ELSE scpiraw_try_from(value)

\* a collection that leaves the failed conversions out
collect_lenient(rs) ==
    LET good == SelectSeq(rs, LAMBDA r : r.ok)
    IN  [ok |-> TRUE, cmds |-> [i \in 1..Len(good) |-> good[i].cmd]]

\* .collect::<Result<Vec<_>, _>>(): the first failure, or all the commands
collect(rs) ==
    IF \E i \in 1..Len(rs) : ~rs[i].ok
    THEN rs[CHOOSE i \in 1..Len(rs) :
               ~rs[i].ok /\ \A j \in 1..(i - 1) : rs[j].ok]
    ELSE [ok |-> TRUE, cmds |-> [i \in 1..Len(rs) |-> rs[i].cmd]]

\* the bytes of the OUT transfer of a parsed command
DialectWire(d, c) ==
    IF d = "Peaktech4055mv" THEN to_command_string(c) ELSE to_command(c)

\* {:?} of what the error message names
DialectDebug(d, c) ==
    IF d = "Peaktech4055mv" THEN DebugStr(to_command_string(c))
    ELSE ScpiRawCommand_fmt(c)

\* a successful Peaktech call that returns an empty list
PeakResult_empty == Ok(Some(<<>>))

\* Ok(None), the value of a successful Peaktech call
PeakResult == Ok(None)

DialectEvent(e, p, t, b, st) ==
    [ev |-> e, ep |-> p, tok |-> t, bytes |-> b, status |-> st]

\* the state at the call of command of driver d on a batch of Batches
DialectInit(d, Batches) ==
    /\ driver = d
    /\ dcommands \in Batches
    /\ parsed = <<>> /\ dtok = 1 /\ dpc = "parse" /\ dlog = <<>>
    /\ dresponse = None /\ dresult = Running

\* parsed_commands: every token converted, `?` on the collected result
DParse(d) ==
    /\ driver = d /\ dpc = "parse"
    /\ LET r == collect([i \in 1..Len(dcommands) |->
                            DialectTryFrom(d, dcommands[i])])
       IN  IF r.ok
           THEN /\ parsed' = r.cmds
                /\ dpc' = "open"
                /\ UNCHANGED dresult
           ELSE /\ dresult' = Err(r.err, r.msg)
                /\ dpc' = "done"
                /\ UNCHANGED parsed
    /\ UNCHANGED <<driver, dcommands, dtok, dlog, dresponse, hidvars, usbvars, accessvars, factoryvars>>

\* one of open, claim_interface, endpoint: it succeeds or command returns
\* the Usb error
DAcquire(d, at, next) ==
    /\ driver = d /\ dpc = at
    /\ \E ok \in BOOLEAN :
         /\ dlog' = Append(dlog, DialectEvent(at, "", 0, <<>>,
                                              IF ok THEN <<>> ELSE <<1>>))
         /\ IF ok THEN dpc' = next /\ UNCHANGED dresult
            ELSE dpc' = "done" /\ dresult' = Err("Usb", at)
    /\ UNCHANGED <<driver, dcommands, parsed, dtok, dresponse, hidvars, usbvars, accessvars, factoryvars>>

\* the top of the for loop: the bytes of the command, endpoint.submit
DSubmitOut(d) ==
    /\ driver = d /\ dpc = "submit_out"
    /\ dtok <= Len(parsed)
    /\ dlog' = Append(dlog, DialectEvent("submit", "out", dtok,
                                         DialectWire(d, parsed[dtok]), <<>>))
    /\ dpc' = "await_out"
    /\ UNCHANGED <<driver, dcommands, parsed, dtok, dresponse, dresult,
                   hidvars, usbvars, accessvars, factoryvars>>

\* endpoint.next_complete().await and the match on its status
DAwaitOut(d) ==
    /\ driver = d /\ dpc = "await_out"
    /\ \E st \in {<<>>} \cup TransferErrors :
         /\ dlog' = Append(dlog, DialectEvent("complete", "out", dtok, <<>>, st))
         /\ IF st # <<>>
            THEN /\ dresult' = Err("Command",
                                   SendPrefix \o DialectDebug(d, parsed[dtok])
                                   \o <<58, 32>> \o st)
                 /\ dpc' = "done"
                 /\ UNCHANGED dtok
            ELSE IF d = "ScpiUsb" /\ is_query(parsed[dtok])
            THEN /\ dpc' = "submit_in"
                 /\ UNCHANGED <<dtok, dresult>>
            ELSE /\ dpc' = "submit_out"
                 /\ dtok' = dtok + 1
                 /\ UNCHANGED dresult
    /\ UNCHANGED <<driver, dcommands, parsed, dresponse, hidvars, usbvars, accessvars, factoryvars>>

PeakParse == DParse("Peaktech4055mv")
PeakOpen == DAcquire("Peaktech4055mv", "open", "claim")
PeakClaim == DAcquire("Peaktech4055mv", "claim", "endpoint")
PeakEndpoint == DAcquire("Peaktech4055mv", "endpoint", "submit_out")
PeakSubmit == DSubmitOut("Peaktech4055mv")
PeakAwait == DAwaitOut("Peaktech4055mv")

\* Ok(None) after the for loop
PeakReturn ==
    /\ driver = "Peaktech4055mv" /\ dpc = "submit_out"
    /\ dtok > Len(parsed)
    /\ dresult' = PeakResult
    /\ dpc' = "done"
    /\ UNCHANGED <<driver, dcommands, parsed, dtok, dlog, dresponse,
                   hidvars, usbvars, accessvars, factoryvars>>

ScpiParse == DParse("ScpiUsb")
ScpiOpen == DAcquire("ScpiUsb", "open", "claim")
ScpiClaim == DAcquire("ScpiUsb", "claim", "endpoint_out")
ScpiEndpointOut == DAcquire("ScpiUsb", "endpoint_out", "endpoint_in")
ScpiEndpointIn == DAcquire("ScpiUsb", "endpoint_in", "submit_out")
ScpiSubmitOut == DSubmitOut("ScpiUsb")
ScpiAwaitOut == DAwaitOut("ScpiUsb")

\* endpoint_in.submit(read_buffer)
ScpiSubmitIn ==
    /\ driver = "ScpiUsb" /\ dpc = "submit_in"
    /\ dlog' = Append(dlog, DialectEvent("submit", "in", dtok, <<>>, <<>>))
    /\ dpc' = "await_in"
    /\ UNCHANGED <<driver, dcommands, parsed, dtok, dresponse, dresult,
                   hidvars, usbvars, accessvars, factoryvars>>

\* endpoint_in.next_complete().await, the match on its status, the push
ScpiAwaitIn ==
    /\ driver = "ScpiUsb" /\ dpc = "await_in"
    /\ \E st \in {<<>>} \cup TransferErrors : \E data \in ScpiInData :
         /\ dlog' = Append(dlog, DialectEvent("complete", "in", dtok,
                                              IF st = <<>> THEN data ELSE <<>>,
                                              st))
         /\ IF st # <<>>
            THEN /\ dresult' = Err("Command",
                                   ReadPrefix \o ScpiRawCommand_fmt(parsed[dtok])
                                   \o <<58, 32>> \o st)
                 /\ dpc' = "done"
                 /\ UNCHANGED <<dtok, dresponse>>
            ELSE /\ dresponse' =
                      Some(Append(IF dresponse = None THEN <<>> ELSE dresponse[1],
                                  from_utf8_lossy(data)))
                 /\ dpc' = "submit_out"
                 /\ dtok' = dtok + 1
                 /\ UNCHANGED dresult
    /\ UNCHANGED <<driver, dcommands, parsed, hidvars, usbvars, accessvars, factoryvars>>

\* the return after the for loop
ScpiReturn ==
    /\ driver = "ScpiUsb" /\ dpc = "submit_out"
    /\ dtok > Len(parsed)
    /\ dresult' = Ok(IF dresponse = None THEN None
                     ELSE Some(get_reading_strings(dresponse[1])))
    /\ dpc' = "done"
    /\ UNCHANGED <<driver, dcommands, parsed, dtok, dlog, dresponse,
                   hidvars, usbvars, accessvars, factoryvars>>

\* the dialect drivers: the waveform dialect on one token of DialectTexts or
\* a batch over PeakTokens, the raw dialect on a batch over ScpiTokens
InitDialect ==
    /\ HidIdle /\ UsbIdle /\ AccessIdle /\ FactoryIdle
    /\ \/ DialectInit("Peaktech4055mv",
                      { <<t>> : t \in DialectTexts }
                      \cup SeqsUpTo(PeakTokens, MaxDialectTokens))
       \/ DialectInit("ScpiUsb", SeqsUpTo(ScpiTokens, MaxDialectTokens))
NextDialect ==
    \/ PeakParse \/ PeakOpen \/ PeakClaim \/ PeakEndpoint \/ PeakSubmit
    \/ PeakAwait \/ PeakReturn
    \/ ScpiParse \/ ScpiOpen \/ ScpiClaim \/ ScpiEndpointOut \/ ScpiEndpointIn
    \/ ScpiSubmitOut \/ ScpiAwaitOut \/ ScpiSubmitIn \/ ScpiAwaitIn
    \/ ScpiReturn
SpecDialect == InitDialect /\ [][NextDialect]_vars

-----------------------------------------------------------------------------
(* The accessors of a reading (reading/common.rs: trait Reading) called by  *)
(* a consumer on the opaque reading (reading/scpiraw.rs) and on the         *)
(* multimeter reading (reading/unit161d.rs)                                 *)

\* longest byte sequence wrapped into an opaque reading
MaxDataLen == 3

\* ScpiRawReading::get_csv failing with a Command error
ScpiRawReading_get_csv_command(r) ==
    Err("Command", "ScpiRawReading does not support CSV format")

\* ScpiRawReading::get_csv
ScpiRawReading_get_csv(r) ==
    Err("General", "ScpiRawReading does not support CSV format")

\* ScpiRawReading::get_raw
ScpiRawReading_get_raw(r) == Ok(r.data)

\* a string view that replaces what is no UTF-8
ScpiRawReading_get_raw_string_lossy(r) == Ok(from_utf8_lossy(r.data))

\* ScpiRawReading::get_raw_string
ScpiRawReading_get_raw_string(r) ==
    from_utf8_or_general(r.data, "Failed to convert raw data to string")

\* the bytes an opaque reading may wrap: A, a comma, the two bytes of a
\* degree sign and a byte that is no UTF-8
RawData == SeqsUpTo({65, COMMA, 194, 176, 255}, MaxDataLen)

\* the readings a consumer may hold: every multimeter reading parse gives
\* for the bodies of the reading specification, and the opaque readings
AccessReadings ==
    { parse(b)[1] : b \in { x \in ReadingInputs \cup FieldInputs : Len(x) >= MinReadingLen } }
    \cup { get_reading(d) : d \in RawData }

AccessInit ==
    /\ reading \in AccessReadings
    /\ call = "none"
    /\ returned = Running

\* reading.get_csv()
GetCsv ==
    /\ reading # <<>>
    /\ call' = "get_csv"
    /\ returned' = IF reading.kind = "ScpiRawReading"
                   THEN ScpiRawReading_get_csv(reading) ELSE get_csv(reading)
    /\ UNCHANGED <<reading, hidvars, usbvars, dialectvars, factoryvars>>

\* reading.get_raw()
GetRaw ==
    /\ reading # <<>>
    /\ call' = "get_raw"
    /\ returned' = IF reading.kind = "ScpiRawReading"
                   THEN ScpiRawReading_get_raw(reading) ELSE get_raw(reading)
    /\ UNCHANGED <<reading, hidvars, usbvars, dialectvars, factoryvars>>

\* reading.get_raw_string()
GetRawString ==
    /\ reading # <<>>
    /\ call' = "get_raw_string"
    /\ returned' = IF reading.kind = "ScpiRawReading"
                   THEN ScpiRawReading_get_raw_string(reading)
                   ELSE get_raw_string(reading)
    /\ UNCHANGED <<reading, hidvars, usbvars, dialectvars, factoryvars>>

\* a consumer calling the accessors of one reading, in any order
InitAccess == HidIdle /\ UsbIdle /\ DialectIdle /\ AccessInit /\ FactoryIdle
NextAccess == GetCsv \/ GetRaw \/ GetRawString
SpecAccess == InitAccess /\ [][NextAccess]_vars

-----------------------------------------------------------------------------
(* get_communication_device (communication/common.rs) and what the driver
   it makes asks of the USB device (communication/scpiusb.rs) *)

DEFAULT_USB_INTERFACE_NUM == 0
DEFAULT_USB_BULK_IN_ADDRESS == 129
DEFAULT_USB_BULK_OUT_ADDRESS == 1

PEAKTECH_4055MV_USB_INTERFACE_NUM == 0
PEAKTECH_4055MV_USB_BULK_IN_ADDRESS == 130
PEAKTECH_4055MV_USB_BULK_OUT_ADDRESS == 2

\* enum Device as get_communication_device matches on it
Devices == {"Unit161d", "GenericScpiUsb", "Peaktech4055mvUsb"}

\* Option::unwrap_or
unwrap_or(o, d) == IF o = None THEN d ELSE o[1]

\* Unit161dHid::new: the device of the path, when it opens
Unit161dHid_new(opens) ==
    IF opens THEN Ok([kind |-> "Unit161dHid"])
    ELSE Err("Hid", "Failed to open HID device")

\* ScpiUsb::new: the listed device of that id, with the three numbers
ScpiUsb_new(found, interface_number, bulk_in_address, bulk_out_address) ==
    IF found
    THEN Ok([kind |-> "ScpiUsb",
             interface_number |-> interface_number,
             bulk_in_address |-> bulk_in_address,
             bulk_out_address |-> bulk_out_address])
    ELSE Err("Usb", "ScpiUsb device not found")

\* get_communication_device(args); found: whether the device named by the
\* arguments exists and opens
get_communication_device(a, found) ==
    CASE a.device = "Unit161d" ->
           IF a.hid = None THEN Err("Hid", "HID device not provided")
           ELSE Unit161dHid_new(found)
      [] a.device = "GenericScpiUsb" ->
           IF a.usb = None THEN Err("Usb", "USB device not provided")
           ELSE ScpiUsb_new(found,
                  unwrap_or(a.interface_number, DEFAULT_USB_INTERFACE_NUM),
                  unwrap_or(a.bulk_in_address, DEFAULT_USB_BULK_IN_ADDRESS),
                  unwrap_or(a.bulk_out_address, DEFAULT_USB_BULK_OUT_ADDRESS))
      [] OTHER ->
           IF a.usb = None THEN Err("Usb", "USB device not provided")
           ELSE ScpiUsb_new(found,
                  unwrap_or(a.interface_number, PEAKTECH_4055MV_USB_INTERFACE_NUM),
                  unwrap_or(a.bulk_in_address, PEAKTECH_4055MV_USB_BULK_IN_ADDRESS),
                  PEAKTECH_4055MV_USB_BULK_OUT_ADDRESS)

\* values of the u8 arguments: the defaults of both models and others
U8Values == {0, 1, 2, 3, 129, 130, 131}

OptionU8 == {None} \cup { Some(v) : v \in U8Values }

\* a device path or id given or not
OptionPath == {None, Some("path")}

ArgsSet ==
    [device : Devices, hid : OptionPath, usb : OptionPath,
     interface_number : {None, Some(0), Some(1)},
     bulk_in_address : OptionU8, bulk_out_address : OptionU8]

FactoryInit ==
    /\ args \in ArgsSet
    /\ made = Running
    /\ requested = <<>>

\* the call of get_communication_device
GetCommunicationDevice ==
    /\ args # <<>>
    /\ made = Running
    /\ \E found \in BOOLEAN : made' = get_communication_device(args, found)
    /\ UNCHANGED <<args, requested, hidvars, usbvars, dialectvars, accessvars>>

\* the made driver is a ScpiUsb that has asked n things of the device
ScpiUsbAt(n) ==
    /\ made.kind = "Ok"
    /\ made.value.kind = "ScpiUsb"
    /\ Len(requested) = n

\* command: open_device.claim_interface(self.interface_number)
FactoryClaim ==
    /\ ScpiUsbAt(0)
    /\ requested' = Append(requested,
          [op |-> "claim_interface", n |-> made.value.interface_number])
    /\ UNCHANGED <<args, made, hidvars, usbvars, dialectvars, accessvars>>

\* command: interface.endpoint::<Bulk, Out>(self.bulk_out_address)
FactoryEndpointOut ==
    /\ ScpiUsbAt(1)
    /\ requested' = Append(requested,
          [op |-> "endpoint_out", n |-> made.value.bulk_out_address])
    /\ UNCHANGED <<args, made, hidvars, usbvars, dialectvars, accessvars>>

\* command: interface.endpoint::<Bulk, In>(self.bulk_in_address)
FactoryEndpointIn ==
    /\ ScpiUsbAt(2)
    /\ requested' = Append(requested,
          [op |-> "endpoint_in", n |-> made.value.bulk_in_address])
    /\ UNCHANGED <<args, made, hidvars, usbvars, dialectvars, accessvars>>

\* making a driver from the arguments and its acquisition of the device
InitFactory == HidIdle /\ UsbIdle /\ DialectIdle /\ AccessIdle /\ FactoryInit
NextFactory == \/ GetCommunicationDevice \/ FactoryClaim
               \/ FactoryEndpointOut \/ FactoryEndpointIn
SpecFactory == InitFactory /\ [][NextFactory]_vars

-----------------------------------------------------------------------------
(* The frame decoder against the stream it was fed (SpecDecoder) *)

\* position in rx of the first 0xAB (0: none)
SyncPos == FirstIndex(rx, 171)

\* rx ends exactly at the last byte of a frame: 0xAB, 0xCD, a length byte
\* L >= 2 and L further bytes
FrameComplete ==
    /\ SyncPos > 0
    /\ Len(rx) >= SyncPos + 2
    /\ rx[SyncPos + 1] = 205
    /\ rx[SyncPos + 2] >= 2
    /\ Len(rx) = SyncPos + 2 + rx[SyncPos + 2]

\* the length byte of the frame in rx
FrameLen == rx[SyncPos + 2]

\* the trailing two bytes of rx as a big-endian 16-bit value
Trailing16 == rx[Len(rx) - 1] * 256 + rx[Len(rx)]

\* the bytes between the length byte and the two checksum bytes
PayloadBytes == SubSeq(rx, SyncPos + 3, Len(rx) - 2)

\* every byte the call consumed before the two checksum bytes
PrecedingBytes == SubSeq(rx, 1, Len(rx) - 2)

Accepted == resp.kind = "Ok"
ChecksumError == resp = Err("Hid", "Checksum mismatch")

\* C1 as stated: a complete frame is accepted iff its trailing two bytes,
\* big-endian, equal the sum of the payload bytes that precede them and
\* nothing else; a mismatch is a Hid error; nothing else is accepted.
C1_PayloadSumAccepts ==
    /\ Accepted => FrameComplete
    /\ FrameComplete =>
         /\ Accepted <=> (Trailing16 = SumSeq(PayloadBytes))
         /\ ~Accepted => (resp.kind = "Err" /\ resp.err = "Hid")

\* C1 amended: a complete frame is accepted iff its trailing two bytes,
\* big-endian, equal the sum of every byte the call consumed before them
\* (the bytes discarded before 0xAB, 0xAB, 0xCD, the length byte and the
\* payload bytes); a mismatch returns the Hid error "Checksum mismatch" and no
\* body; nothing but a complete frame is accepted.
C1_StreamSumAccepts ==
    /\ Accepted => FrameComplete
    /\ FrameComplete =>
         /\ Accepted <=> (Trailing16 = SumSeq(PrecedingBytes))
         /\ ~Accepted => ChecksumError

\* an accepted frame behind a nonzero discarded byte
C1_Witness ==
    /\ Accepted /\ FrameComplete
    /\ \E i \in 1..(SyncPos - 1) : rx[i] # 0
    /\ Trailing16 # SumSeq(PayloadBytes)

\* C2: in an accepted frame, inverting any one bit of any one payload byte
\* makes read_response return the checksum error.
C2_BitFlipRejected ==
    Accepted =>
      \A i \in (SyncPos + 3)..(Len(rx) - 2) : \A k \in 0..7 :
        Decode([rx EXCEPT ![i] = FlipBit(rx[i], k)]).out = "checksum"

\* an accepted frame with a payload byte
C2_Witness == Accepted /\ FrameComplete /\ Len(PayloadBytes) >= 1

-----------------------------------------------------------------------------
(* The HID driver's batch loop (Spec) *)

\* the twelve names of the opcode dialect with their opcodes
OpcodeTable ==
    { <<"Measure", 94>>, <<"MinMax", 65>>, <<"NotMinMax", 66>>,
      <<"Range", 70>>, <<"Auto", 71>>, <<"Rel", 72>>, <<"Select2", 73>>,
      <<"Hold", 74>>, <<"Lamp", 75>>, <<"Select1", 76>>, <<"PMinMax", 77>>,
      <<"NotPeak", 78>> }

ValidToken(t) == \E e \in OpcodeTable : e[1] = t
OpcodeOf(t) == (CHOOSE e \in OpcodeTable : e[1] = t)[2]

\* the I/O events of token j, in order
EventsOf(j) == SelectSeq(hidlog, LAMBDA e : e.tok = j)

\* C4: for every opcode 0..255 the bytes written are
\* [6, 0xAB, 0xCD, 0x03, op, hi, lo] with hi*256 + lo = op + 379; every frame
\* the driver wrote is that of its token's opcode; the Measure frame is
\* [6, 0xAB, 0xCD, 0x03, 0x5E, 0x01, 0xD9], the frame main writes.
C4_CommandFrame ==
    /\ \A op \in 0..255 :
         LET w == write_with_length(seq_of(op))
         IN  /\ Len(w) = 7
             /\ SubSeq(w, 1, 5) = <<6, 171, 205, 3, op>>
             /\ w[6] \in 0..255 /\ w[7] \in 0..255
             /\ w[6] * 256 + w[7] = op + 379
    /\ \A i \in 1..Len(hidlog) :
         hidlog[i].op = "write" =>
           LET op == OpcodeOf(commands[hidlog[i].tok])
           IN  hidlog[i].bytes =
                 <<6, 171, 205, 3, op, (op + 379) \div 256, (op + 379) % 256>>
    /\ write_with_length(seq_of(94)) = <<6, 171, 205, 3, 94, 1, 217>>
    /\ write_with_length(MainMeasureFrame) = write_with_length(seq_of(94))

\* the frames of Measure and of another token were written
C4_Witness ==
    /\ Len(hidlog) >= 3
    /\ hidlog[1] = [op |-> "write", tok |-> 1, ok |-> TRUE,
                    bytes |-> <<6, 171, 205, 3, 94, 1, 217>>]
    /\ hidlog[3].op = "write" /\ hidlog[3].ok /\ commands[2] = "NotPeak"

C6_NoneWhenNoReading ==
    result.kind = "Ok" =>
      /\ measurements = <<>> => result.value = None
      /\ measurements # <<>> => result.value = Some(measurements)

\* whether the stream fed to the current call holds a failure of the frame:
\* a wrong byte after 0xAB, or a complete frame whose sum disagrees
BadSync == SyncPos > 0 /\ Len(rx) > SyncPos /\ rx[SyncPos + 1] # 205
BadChecksum == FrameComplete /\ Trailing16 # SumSeq(PrecedingBytes)

C8_OpcodeDialect ==
    /\ \A t \in TokenSet :
         /\ try_from(t).ok <=> ValidToken(t)
         /\ try_from(t).ok => try_from(t).cmd = OpcodeOf(t)
         /\ ~try_from(t).ok => try_from(t).err = "Command"
    /\ \A j \in 1..Len(commands) :
         ~ValidToken(commands[j]) => EventsOf(j) = <<>>
    /\ (pc # "token" /\ tok <= Len(commands) /\ ~ValidToken(commands[tok])) =>
         (result.kind = "Err" /\ result.err = "Command")
    /\ (result.kind = "Err" /\ result.err = "Command") =>
         ~ValidToken(commands[tok])

\* a token differing from a name only by case, rejected as second token
C8_Witness ==
    /\ result.kind = "Err" /\ result.err = "Command"
    /\ tok = 2 /\ commands[2] = "measure"
    /\ hidlog # <<>> /\ EventsOf(2) = <<>>

-----------------------------------------------------------------------------
(* The USB bulk driver against its event log (SpecUsb) *)

\* a token with a '?' anywhere in it
IsQuery(t) == \E i \in 1..Len(t) : t[i] = QMARK

\* the i-th event of the log reports a failed completion
FailedAt(i) == ulog[i].ev = "complete" /\ ulog[i].bytes # <<>>

\* the tokens of the batch that are queries, in order
QueryTokens == SelectSeq([i \in 1..Len(ucommands) |-> i],
                         LAMBDA i : IsQuery(ucommands[i]))

\* the result is an error or carries one reading for every query of the batch
NoPartialList ==
    /\ uresult.kind \in {"Running", "Ok", "Err"}
    /\ uresult.kind = "Ok" =>
         /\ utok = Len(ucommands) + 1
         /\ Len(response) = Len(QueryTokens)
         /\ uresult.value = IF response = <<>> THEN None ELSE Some(response)

\* a failed completion is the last event, and ends the call
FailureEndsBatch ==
    \A i \in 1..Len(ulog) :
        FailedAt(i) =>
            /\ i = Len(ulog)
            /\ upc = "done"
            /\ uresult.kind = "Err" /\ uresult.err = "Command"
            /\ inflight = {}
            /\ ~ENABLED NextUsb

\* C9 as stated: a write or read completion failure on token k makes command
\* return a Command error whose message contains token k itself; no transfer
\* is submitted afterwards, and the result is an error or the complete list
C9_ErrorNamesToken ==
    /\ FailureEndsBatch
    /\ NoPartialList
    /\ \A i \in 1..Len(ulog) :
         FailedAt(i) => Contains(uresult.msg, ucommands[ulog[i].tok])

\* C9: a write or read completion failure on token k makes command return a
\* Command error whose message contains the {:?} rendering of token k (quoted,
\* with newline, quote and backslash escaped); no transfer is submitted
\* afterwards, and the result is an error or the complete list
C9_ErrorNamesDebugToken ==
    /\ FailureEndsBatch
    /\ NoPartialList
    /\ \A i \in 1..Len(ulog) :
         FailedAt(i) => Contains(uresult.msg, DebugStr(ucommands[ulog[i].tok]))

\* the second token, ending with a newline, fails after the first token's
\* reading was collected
C9_Witness ==
    /\ Len(ucommands) = 2
    /\ response # <<>>
    /\ ulog # <<>> /\ FailedAt(Len(ulog)) /\ ulog[Len(ulog)].tok = 2
    /\ NL \in {ucommands[2][j] : j \in 1..Len(ucommands[2])}
    /\ uresult.kind = "Err"

\* the events of token i, in the order the loop body issues them
TokenEvents(i) ==
    <<[ev |-> "submit", ep |-> "out", tok |-> i],
      [ev |-> "complete", ep |-> "out", tok |-> i]>>
    \o (IF IsQuery(ucommands[i])
        THEN <<[ev |-> "submit", ep |-> "in", tok |-> i],
               [ev |-> "complete", ep |-> "in", tok |-> i]>>
        ELSE <<>>)

\* the events of the whole batch
BatchEvents == Flatten([i \in 1..Len(ucommands) |-> TokenEvents(i)])

\* the log without the bytes
Events == [i \in 1..Len(ulog) |->
             [ev |-> ulog[i].ev, ep |-> ulog[i].ep, tok |-> ulog[i].tok]]

\* C10: the I/O events of a batch are totally ordered token by token (OUT
\* submitted, OUT completed, then for a query IN submitted, IN completed, and
\* only then the next token's OUT), and at most one transfer is in flight
C10_SequentialTransfers ==
    /\ Len(Events) <= Len(BatchEvents)
    /\ Events = SubSeq(BatchEvents, 1, Len(Events))
    /\ Cardinality(inflight) <= 1
    /\ inflight # {} <=>
         (ulog # <<>> /\ ulog[Len(ulog)].ev = "submit")
    /\ \A t \in inflight :
         t = [ep |-> ulog[Len(ulog)].ep, tok |-> ulog[Len(ulog)].tok]

\* the second token's OUT transfer is in flight after a query with a '?' that
\* is not its last character was written and read
C10_Witness ==
    /\ Len(ucommands) = 2
    /\ ucommands[1] = <<QMARK, 77>>
    /\ Len(ulog) = 5
    /\ inflight = {[ep |-> "out", tok |-> 2]}

\* the data of the completed IN transfer of token i
InDataOf(i) ==
    LET k == CHOOSE k \in 1..Len(ulog) :
                 /\ ulog[k].ev = "complete" /\ ulog[k].ep = "in"
                 /\ ulog[k].tok = i
    IN  ulog[k].data

\* C11: a token is read for iff it contains '?'; a successful call returns
\* one opaque reading per token with a '?', in token order, each wrapping the
\* bytes of that token's IN transfer, and None iff no token contains '?'
C11_OneReadingPerQuery ==
    /\ \A i \in 1..Len(ucommands) :
         (i < utok) =>
           ((\E k \in 1..Len(ulog) : ulog[k].ep = "in" /\ ulog[k].tok = i)
              <=> IsQuery(ucommands[i]))
    /\ uresult.kind = "Ok" =>
         /\ Len(response) = Len(QueryTokens)
         /\ \A j \in 1..Len(QueryTokens) :
              response[j] = [kind |-> "ScpiRawReading",
                             data |-> InDataOf(QueryTokens[j])]
         /\ (uresult.value = None) <=> (QueryTokens = <<>>)
         /\ QueryTokens # <<>> => uresult.value = Some(response)

\* a successful batch of a query with '?' not at its end, which delivered
\* bytes, and a token without '?'
C11_Witness ==
    /\ uresult.kind = "Ok"
    /\ ucommands = << <<QMARK, 77>>, <<77>> >>
    /\ uresult.value = Some(<<[kind |-> "ScpiRawReading", data |-> <<49, NL>>]>>)

EndsWithNL(t) == t # <<>> /\ t[Len(t)] = NL

\* C12: the payload of a token is the token itself when it ends with a
\* newline and the token followed by one newline otherwise; the payload ends
\* with a newline, is at most one byte longer than the token, and encoding a
\* payload returns it unchanged; every OUT transfer carries that payload
C12_NewlineOnce ==
    /\ \A t \in RawTexts \cup UsbTokens :
         LET p == command_bytes(t)
         IN  /\ EndsWithNL(t) => p = t
             /\ ~EndsWithNL(t) => p = t \o <<NL>>
             /\ EndsWithNL(p)
             /\ Len(p) \in {Len(t), Len(t) + 1}
             /\ command_bytes(p) = p
    /\ \A k \in 1..Len(ulog) :
         (ulog[k].ev = "submit" /\ ulog[k].ep = "out") =>
           ulog[k].bytes = IF EndsWithNL(ucommands[ulog[k].tok])
                           THEN ucommands[ulog[k].tok]
                           ELSE ucommands[ulog[k].tok] \o <<NL>>

\* a token ending with a newline was sent unchanged, after one that got its
\* newline appended
C12_Witness ==
    /\ Len(ulog) >= 3
    /\ ucommands = << <<77>>, <<77, NL>> >>
    /\ ulog[1].bytes = <<77, NL>>
    /\ ulog[3].ev = "submit" /\ ulog[3].bytes = <<77, NL>>

-----------------------------------------------------------------------------
(* The waveform dialect and the drivers that parse first (SpecDialect) *)

IsApply(t) == StartsWith(t, APPLY_PREFIX)

\* the comma-separated fields of an Apply token, after "Apply:"
ApplyFields(t) == Split(DropFirst(t, Len(APPLY_PREFIX)), COMMA)

\* the text of the first field up to its first space: the waveform name
WaveText(t) ==
    LET f == ApplyFields(t)[1]
        i == FirstIndex(f, SPACE)
    IN  Trim(IF i = 0 THEN f ELSE SubSeq(f, 1, i - 1))

\* what follows the waveform name in the first field: the frequency
FreqText(t) ==
    LET f == ApplyFields(t)[1]
        i == FirstIndex(f, SPACE)
    IN  IF i = 0 THEN <<>> ELSE Trim(DropFirst(f, i))

\* the second and the third field: amplitude and offset
AmpText(t) == IF Len(ApplyFields(t)) >= 2 THEN Trim(ApplyFields(t)[2]) ELSE <<>>
OffText(t) == IF Len(ApplyFields(t)) >= 3 THEN Trim(ApplyFields(t)[3]) ELSE <<>>

\* the batch was parsed by the Peaktech driver
PeakParsed == driver = "Peaktech4055mv" /\ dpc # "parse"

\* the batch was rejected by the parse
BatchRejected ==
    /\ parsed = <<>> /\ dlog = <<>> /\ dpc = "done"
    /\ dresult.kind = "Err" /\ dresult.err = "Command"

\* every token of the batch was accepted
BatchAccepted == Len(parsed) = Len(dcommands) /\ dcommands # <<>>

\* C13: an Apply token with an amplitude and no (non-empty) frequency, or
\* with an offset and no (non-empty) amplitude, is rejected with a Command
\* error
C13_DependencyOrder ==
    PeakParsed =>
      \A i \in 1..Len(dcommands) :
        (/\ IsApply(dcommands[i])
         /\ \/ (AmpText(dcommands[i]) # <<>> /\ FreqText(dcommands[i]) = <<>>)
            \/ (OffText(dcommands[i]) # <<>> /\ AmpText(dcommands[i]) = <<>>))
        => BatchRejected

\* the bytes written for token i, if its OUT transfer was submitted
WrittenFor(i) ==
    { dlog[k].bytes : k \in { j \in 1..Len(dlog) :
                                 /\ dlog[j].ev = "submit" /\ dlog[j].ep = "out"
                                 /\ dlog[j].tok = i } }

\* every token of the batch parsed, and serialized to itself and a newline
RoundTrips ==
    /\ BatchAccepted
    /\ \A i \in 1..Len(dcommands) :
         /\ to_command_string(parsed[i]) = dcommands[i] \o <<NL>>
         /\ WrittenFor(i) \subseteq {dcommands[i] \o <<NL>>}

\* C14 as stated: every canonical Apply token whose fields are non-empty and
\* hold no space and no comma parses and serializes to the token followed
\* by one newline
C14_CanonicalRoundTrip ==
    (PeakParsed /\ dcommands # <<>>
     /\ \A i \in 1..Len(dcommands) : dcommands[i] \in CanonicalApply)
    => RoundTrips

\* fields that neither begin nor end with a whitespace character
CleanFields ==
    { f \in FieldTexts : f[1] \notin WhiteSpace /\ f[Len(f)] \notin WhiteSpace }

CleanCanonicalApply ==
    CanonicalApply
    \cap { ApplyToken(w, fs) : w \in DOMAIN Waveform, fs \in SeqsUpTo(CleanFields, 3) }

\* C14 amended: every canonical Apply token whose fields are non-empty, hold
\* no space and no comma and neither begin nor end with a whitespace
\* character (tab, newline, ...) parses and serializes to the token followed
\* by one newline; a whitespace character at either end of a field is
\* dropped by the parse
C14_CleanRoundTrip ==
    (PeakParsed /\ dcommands # <<>>
     /\ \A i \in 1..Len(dcommands) : dcommands[i] \in CleanCanonicalApply)
    => RoundTrips

\* 'Apply:Quake k, 1, k' was written as itself and a newline
C14_Witness ==
    /\ PeakParsed
    /\ dcommands = << ApplyToken("Quake", << <<107>>, <<49>>, <<107>> >>) >>
    /\ WrittenFor(1) = { dcommands[1] \o <<NL>> }

\* the 16 names
WaveformNames == { Waveform[w] : w \in DOMAIN Waveform }

Malformed(t) ==
    /\ IsApply(t)
    /\ \/ Len(ApplyFields(t)) > 3
       \/ WaveText(t) \notin WaveformNames
       \/ (Len(ApplyFields(t)) >= 2 /\ FirstIndex(ApplyFields(t)[1], SPACE) = 0)

\* C16: in both drivers every token is parsed before the device is opened;
\* when a token of the batch is malformed the call returns a Command error
\* and no open, claim or transfer has happened for any token
C16_ParseBeforeIO ==
    /\ dlog # <<>> => Len(parsed) = Len(dcommands)
    /\ (dpc \notin {"idle", "parse"} /\ Len(parsed) # Len(dcommands)) =>
         (BatchRejected /\ ~ENABLED NextDialect)
    /\ (dpc \notin {"idle", "parse"}
        /\ \E i \in 1..Len(dcommands) : Malformed(dcommands[i])) =>
         BatchRejected

\* a batch whose first token is Reset and whose second token is a malformed
\* Apply token was rejected, nothing having been opened or sent
C16_Witness ==
    /\ driver = "Peaktech4055mv" /\ Len(dcommands) = 2
    /\ dcommands[1] = RESET_TOKEN
    /\ Malformed(dcommands[2])
    /\ BatchRejected

\* C17: the token that is exactly 'Reset' is the Reset command and is
\* written as '*RST\n'; no other token is the Reset command, and a token
\* without '*' other than 'Reset' is never written as '*RST\n'
C17_ResetExact ==
    (PeakParsed /\ BatchAccepted) =>
      \A i \in 1..Len(dcommands) :
        /\ parsed[i].kind = "Reset" <=> dcommands[i] = <<82, 101, 115, 101, 116>>
        /\ dcommands[i] = <<82, 101, 115, 101, 116>> =>
             /\ to_command_string(parsed[i]) = <<42, 82, 83, 84, NL>>
             /\ WrittenFor(i) \subseteq { <<42, 82, 83, 84, NL>> }
        /\ (/\ dcommands[i] # <<82, 101, 115, 101, 116>>
            /\ \A k \in 1..Len(dcommands[i]) : dcommands[i][k] # 42) =>
             /\ to_command_string(parsed[i]) # <<42, 82, 83, 84, NL>>
             /\ <<42, 82, 83, 84, NL>> \notin WrittenFor(i)

\* 'Reset' was written as '*RST\n'
C17_Witness ==
    /\ PeakParsed /\ Len(dcommands) = 1
    /\ dcommands[1] = <<82, 101, 115, 101, 116>>
    /\ WrittenFor(1) = { <<42, 82, 83, 84, NL>> }

\* a token without its leading 'Raw:', if it has one
StripRawPrefix(t) ==
    IF StartsWith(t, <<82, 97, 119, 58>>) THEN DropFirst(t, 4) ELSE t

\* C18: a token that is neither an Apply token nor 'Reset' is written as
\* itself, without a leading 'Raw:' if it has one, followed by one newline
C18_RawPassthrough ==
    (PeakParsed /\ BatchAccepted) =>
      \A i \in 1..Len(dcommands) :
        (~IsApply(dcommands[i]) /\ dcommands[i] # <<82, 101, 115, 101, 116>>) =>
          /\ to_command_string(parsed[i]) = StripRawPrefix(dcommands[i]) \o <<NL>>
          /\ WrittenFor(i) \subseteq { StripRawPrefix(dcommands[i]) \o <<NL>> }

\* C19: the Peaktech driver submits no IN transfer and collects no
\* response, whatever the tokens; a successful call returns None, each
\* command having been written once, in order
C19_WriteOnly ==
    driver = "Peaktech4055mv" =>
      /\ \A k \in 1..Len(dlog) : dlog[k].ep # "in"
      /\ dresponse = <<>>
      /\ dresult.kind = "Ok" =>
           /\ dresult.value = <<>>
           /\ [k \in 1..Len(dcommands) |-> dlog[3 + 2 * k].tok]
                = [k \in 1..Len(dcommands) |-> k]
           /\ Len(dlog) = 3 + 2 * Len(dcommands)

\* a batch of a query-like token and Reset completed
C19_Witness ==
    /\ driver = "Peaktech4055mv"
    /\ dcommands = << <<88, QMARK>>, <<82, 101, 115, 101, 116>> >>
    /\ dresult.kind = "Ok"
    /\ Len(dlog) = 7

-----------------------------------------------------------------------------
(* Unit161dReading::parse on response bodies of any length (SpecReading) *)

\* the body of the frame the decoder has just accepted
AcceptedBody == resp.value[1]

\* a reading built from the bytes b
IsReadingOf(r, b) == r.kind = "Unit161dReading" /\ r.original_bytes = b

\* C20: Unit161dReading::parse never fails: a body of fewer than 14 bytes
\* gives no reading, a body of 14 bytes or more gives a reading of those
\* bytes, whatever the byte values; so does the driver that hands it the
\* body of an accepted frame
C20_ParseTotal ==
    /\ \A b \in ReadingInputs :
          IF Len(b) < 14 THEN parse(b) = None
          ELSE Len(parse(b)) = 1 /\ IsReadingOf(parse(b)[1], b)
    /\ (resp.kind = "Ok" /\ resp.value # None) =>
          IF Len(AcceptedBody) < 14 THEN measurements = <<>>
          ELSE Len(measurements) = 1 /\ IsReadingOf(measurements[1], AcceptedBody)

\* a body of 14 or more bytes with a mode byte past the table and every
\* byte 255 has been parsed into a reading
C20_Witness ==
    /\ resp.kind = "Ok" /\ resp.value # None
    /\ Len(AcceptedBody) > 14
    /\ \A i \in 1..Len(AcceptedBody) : AcceptedBody[i] = 255
    /\ Len(measurements) = 1

\* the seven display bytes of the accepted body
DisplayBytes == SubSeq(AcceptedBody, 3, 9)

\* a reading has been decoded from the accepted body
Decoded ==
    /\ resp.kind = "Ok" /\ resp.value # None
    /\ Len(AcceptedBody) >= 14
    /\ Len(measurements) = 1
    /\ measurements[1].kind = "Unit161dReading"

\* the texts that mean overload: .OL O.L OL. OL -.OL -O.L -OL. -OL
OverloadTexts ==
    { <<46, 79, 76>>, <<79, 46, 76>>, <<79, 76, 46>>, <<79, 76>>,
      <<45, 46, 79, 76>>, <<45, 79, 46, 76>>, <<45, 79, 76, 46>>, <<45, 79, 76>> }

\* the texts of the voltage detector: EF - -- --- ---- -----
NcvTexts ==
    { <<69, 70>> } \cup { [i \in 1..n |-> 45] : n \in 1..5 }

\* C21: in every decoded reading overload is true exactly when the trimmed
\* display value is one of the eight overload texts, ncv exactly when it is
\* one of the six detector texts, and the decimal value is absent whenever
\* either is true; a display showing such a text between spaces is trimmed
\* to it
C21_OverloadNcv ==
    Decoded =>
      LET r == measurements[1]
      IN  /\ r.overload <=> (r.display_value \in OverloadTexts)
          /\ r.ncv <=> (r.display_value \in NcvTexts)
          /\ (r.overload \/ r.ncv) => r.decimal_value = None
          /\ \A t \in OverloadTexts \cup NcvTexts :
                DisplayBytes \in {PadLeft(t, 7), PadRight(t, 7)}
                  => r.display_value = t

\* a display of -OL behind spaces has been decoded as an overload without a
\* decimal value
C21_Witness ==
    /\ Decoded
    /\ DisplayBytes = <<32, 32, 32, 32, 45, 79, 76>>
    /\ measurements[1].overload /\ ~measurements[1].ncv
    /\ measurements[1].decimal_value = None

\* bit k of the byte b
Bit(b, k) == (b \div Pow2(k)) % 2 = 1

\* C22: a reading decoded from 14 bytes or more has progres = byte 9 * 10 +
\* byte 10 (no overflow up to 255 * 10 + 255), rel, hold, min, max = bits
\* 0, 1, 2, 3 of byte 11, hwwarning, battery, auto = bits 0, 1, 2 of byte 12
\* and bar_polarity, peak_min, peak_max, dc = bits 0, 1, 2, 3 of byte 13
\* (bytes counted from 0); the flags depend on nothing else
C22_ProgressAndFlags ==
    Decoded =>
      LET r == measurements[1]
          b == AcceptedBody
      IN  /\ r.progres = b[10] * 10 + b[11]
          /\ r.rel = Bit(b[12], 0) /\ r.hold = Bit(b[12], 1)
          /\ r.min = Bit(b[12], 2) /\ r.max = Bit(b[12], 3)
          /\ r.hwwarning = Bit(b[13], 0) /\ r.battery = Bit(b[13], 1)
          /\ r.auto = Bit(b[13], 2)
          /\ r.bar_polarity = Bit(b[14], 0) /\ r.peak_min = Bit(b[14], 1)
          /\ r.peak_max = Bit(b[14], 2) /\ r.dc = Bit(b[14], 3)

\* a reading with both progres bytes 255, its progres 2805
C22_Witness ==
    /\ Decoded
    /\ AcceptedBody[10] = 255 /\ AcceptedBody[11] = 255
    /\ measurements[1].progres = 2805

\* the entries of the lookup table for the pair (mode, range)
Listed(mode, range) == { e \in UnitTable : e[1] = mode /\ e[2] = range }

\* C23: the unit of a decoded reading is that of the lookup table for its
\* mode name and its range, the range being byte 1 as one character; a pair
\* the table does not list gives "Unknown"; so does the range byte 0 with
\* the mode DCV, while the digit '0' with DCV gives V and the digit '4' with
\* OHM gives megaohm
C23_UnitLookup ==
    Decoded =>
      LET r == measurements[1]
          b == AcceptedBody
      IN  /\ r.mode = (IF b[1] < 31 THEN MODE[b[1] + 1] ELSE UNKNOWN)
          /\ r.range = <<IF b[2] < 128 THEN b[2] ELSE REPLACEMENT>>
          /\ \A e \in Listed(r.mode, r.range) : r.display_unit = e[3]
          /\ Listed(r.mode, r.range) = {} => r.display_unit = UNKNOWN
          /\ (b[1] = 2 /\ b[2] = 0) => r.display_unit = UNKNOWN
          /\ (b[1] = 2 /\ b[2] = 48) => r.display_unit = <<86>>
          /\ (b[1] = 6 /\ b[2] = 52) => r.display_unit = <<77, 937>>

\* a reading of mode OHM and range '4' with its unit, megaohm
C23_Witness ==
    /\ Decoded
    /\ AcceptedBody[1] = 6 /\ AcceptedBody[2] = 52
    /\ measurements[1].display_unit = <<77, 937>>

-----------------------------------------------------------------------------
(* The accessors of a reading (SpecAccess) *)

IsMultimeterReading == reading # <<>> /\ reading.kind = "Unit161dReading"
IsOpaqueReading == reading # <<>> /\ reading.kind = "ScpiRawReading"

\* the fields of a CSV line
CsvFields == Split(returned.value, COMMA)

\* C24: get_csv on a decoded multimeter reading gives a line of exactly 19
\* comma-separated fields, in the order mode, range, display_value,
\* overload, ncv, decimal_value, display_unit, progres, max, min, hold, rel,
\* auto, battery, hwwarning, dc, peak_max, peak_min, bar_polarity; an absent
\* decimal value is the field None, never an empty field
C24_CsvNineteenFields ==
    (IsMultimeterReading /\ call = "get_csv") =>
      /\ returned.kind = "Ok"
      /\ Len(CsvFields) = 19
      /\ CsvFields[1] = reading.mode
      /\ CsvFields[2] = reading.range
      /\ CsvFields[3] = reading.display_value
      /\ CsvFields[4] = bool_display(reading.overload)
      /\ CsvFields[5] = bool_display(reading.ncv)
      /\ CsvFields[6] # <<>>
      /\ reading.decimal_value = None <=> CsvFields[6] = <<78, 111, 110, 101>>
      /\ CsvFields[7] = reading.display_unit
      /\ CsvFields[8] = DigitsOf(reading.progres)
      /\ SubSeq(CsvFields, 9, 19) =
            << bool_display(reading.max), bool_display(reading.min),
               bool_display(reading.hold), bool_display(reading.rel),
               bool_display(reading.auto), bool_display(reading.battery),
               bool_display(reading.hwwarning), bool_display(reading.dc),
               bool_display(reading.peak_max), bool_display(reading.peak_min),
               bool_display(reading.bar_polarity) >>

\* C25: the opaque reading built from any bytes d returns d unchanged from
\* get_raw, and get_csv on it always fails with a General error
C25_OpaqueRawAndCsv ==
    IsOpaqueReading =>
      /\ reading.data \in RawData
      /\ call = "get_raw" => returned = Ok(reading.data)
      /\ call = "get_csv" => (returned.kind = "Err" /\ returned.err = "General")

\* get_csv has failed on an opaque reading of bytes that are no UTF-8
C25_Witness ==
    /\ IsOpaqueReading /\ reading.data = <<255, 65>>
    /\ call = "get_csv" /\ returned.kind = "Err"

\* C26 as stated: get_raw_string on an opaque reading gives a string for
\* every byte sequence, also for one that is no UTF-8, never an error
C26_StringForAnyBytes ==
    (IsOpaqueReading /\ call = "get_raw_string") => returned.kind = "Ok"

\* C26 amended: get_raw_string gives the decoded string when the bytes of
\* the reading are UTF-8 throughout and fails with a General error when
\* they are not; this holds for the opaque and for the multimeter reading
C26_StringOrGeneralError ==
    (reading # <<>> /\ call = "get_raw_string") =>
      LET d == IF IsOpaqueReading THEN reading.data ELSE reading.original_bytes
      IN  IF IsUtf8(d)
          THEN returned.kind = "Ok" /\ Len(returned.value) <= Len(d)
               /\ (\A k \in 1..Len(d) : d[k] < 128) => returned.value = d
          ELSE returned.kind = "Err" /\ returned.err = "General"

\* get_raw_string has failed on an opaque reading whose bytes are no UTF-8
C26_Witness ==
    /\ IsOpaqueReading /\ reading.data = <<65, 255>>
    /\ call = "get_raw_string"
    /\ returned.kind = "Err" /\ returned.err = "General"

-----------------------------------------------------------------------------
(* The phases of the frame decoder (SpecDecoder) *)

\* read_response is under way or has just returned
InReadResponse == pc = "read" \/ resp.kind # "Running"

\* read_response returned because hiddevice.read failed
ReadFailed == resp = Err("Hid", "Failed to read from HID device")

\* the bytes of rx from the first 0xAB on
FromSync == SubSeq(rx, SyncPos, Len(rx))

\* C27: while the decoder waits for 0xAB every other byte is discarded and
\* leaves phase, buffer and running sum as they were, so that what
\* read_response returns for a frame does not depend on the bytes that
\* came before its 0xAB
C27_NoiseDiscarded ==
    InReadResponse =>
      /\ state = 0 => (buf = <<>> /\ index = 0 /\ sum = 0)
      /\ (resp.kind # "Running" /\ ~ReadFailed /\ SyncPos > 0) =>
            resp = ReadResult(Decode(FromSync))

UnexpectedByte == resp = Err("Hid", "Unexpected byte")

Returned == resp.kind = "Ok" \/ resp.kind = "Err"

\* C29: read_response has no timeout: it has returned only with a full
\* frame consumed, with the framing or the checksum error, or with a failed
\* device read; as long as every read succeeds and no 0xAB has been
\* consumed it has not returned, however many reports it has read: it is
\* still in its loop waiting for the first sync byte and the batch has no
\* result
C29_NoTimeout ==
    InReadResponse =>
      /\ Returned =>
            \/ Accepted /\ FrameComplete
            \/ ChecksumError /\ FrameComplete
            \/ UnexpectedByte /\ BadSync
            \/ ReadFailed
      /\ (~ReadFailed /\ SyncPos = 0) =>
            /\ resp.kind = "Running" /\ pc = "read" /\ state = 0
            /\ result.kind = "Running"
            /\ Len(rx) = nreads * (ReportLen - 1)

\* every report read so far succeeded and held no 0xAB: the call is still
\* reading after MaxReports reports
C29_Witness ==
    /\ pc = "read" /\ nreads >= MaxReports /\ SyncPos = 0
    /\ Len(rx) = nreads * (ReportLen - 1)
    /\ \E i \in 1..Len(rx) : rx[i] # 0
    /\ resp.kind = "Running"

NonZero(b) == b # 0

\* s without its zero bytes
StripZeros(s) == SelectSeq(s, NonZero)

IsPrefix(s, t) == Len(s) <= Len(t) /\ SubSeq(t, 1, Len(s)) = s

\* the number of zero bytes rx begins with
LeadingZeros ==
    IF \A i \in 1..Len(rx) : rx[i] = 0 THEN Len(rx)
    ELSE (CHOOSE i \in 1..Len(rx) :
            rx[i] # 0 /\ \A j \in 1..(i - 1) : rx[j] = 0) - 1

\* rx from its first byte that is not padding
FromFirstSent == SubSeq(rx, LeadingZeros + 1, Len(rx))

\* the bytes the device sent reached the decoder back to back, whatever
\* the reports they came in: padding only before the first and after the
\* last of them
Contiguous == IsPrefix(FromFirstSent, sent \o Zeros(Len(rx)))

\* C30: within one read_response call the phase, the partial buffer, the
\* write index and the running sum after any number of reports are those of
\* one pass over bytes 1..63 of all the reports joined; byte 0 of a report
\* is never fed; so bytes the device sent back to back decode to the result
\* of one pass over them, wherever the report boundary fell among them
C30_ReportBoundaries ==
    (InReadResponse /\ ~ReadFailed) =>
      /\ state = Decode(rx).state /\ buf = Decode(rx).buf
      /\ index = Decode(rx).index /\ sum = Decode(rx).sum
      /\ resp = ReadResult(Decode(rx))
      /\ Len(rx) <= nreads * (ReportLen - 1)
      /\ resp.kind = "Running" => Len(rx) = nreads * (ReportLen - 1)
      /\ IsPrefix(StripZeros(rx), StripZeros(sent))
      /\ Contiguous => resp = ReadResult(Decode(FromFirstSent))

\* a frame accepted with its two checksum bytes in different reports: the
\* first report ends with the high byte, the second begins with the low one
C30_Witness ==
    /\ Accepted /\ FrameComplete /\ Contiguous
    /\ nreads = 2 /\ Len(rx) = ReportLen
    /\ SyncPos + 1 + FrameLen = ReportLen - 1

-----------------------------------------------------------------------------
(* Release of the USB device (SpecUsb) *)

UsbReturned == upc = "done"

\* C31: when command of the USB bulk driver has returned, with its result
\* or with any of its errors (open, claim, endpoints, write completion, read
\* completion), it holds neither the device handle nor the interface and no
\* transfer is in flight; while it runs it holds the interface only with
\* the device handle, and both from the claim on
C31_ReleasedOnReturn ==
    /\ UsbReturned => (held = {} /\ inflight = {} /\ uresult.kind # "Running")
    /\ ~UsbReturned => uresult.kind = "Running"
    /\ "interface" \in held => "device" \in held
    /\ upc \in {"submit_out", "await_out", "submit_in", "await_in"} =>
          held = {"device", "interface"}

\* command has returned the read-completion error of its second token: it
\* had opened the device and claimed the interface, and holds nothing
C31_Witness ==
    /\ UsbReturned /\ held = {}
    /\ uresult.kind = "Err" /\ uresult.err = "Command"
    /\ utok = 2 /\ Len(ulog) >= 4
    /\ ulog[Len(ulog)].ev = "complete" /\ ulog[Len(ulog)].ep = "in"
    /\ ulog[Len(ulog)].bytes # <<>>

-----------------------------------------------------------------------------
(* The numbers the USB driver addresses the device by (SpecFactory) *)

\* the defaults of a model: interface, bulk IN, bulk OUT
ModelDefaults(device) ==
    IF device = "GenericScpiUsb" THEN <<0, 129, 1>> ELSE <<0, 130, 2>>

\* the configured value when one is supplied, the default otherwise
ConfiguredOr(o, d) == IF o # None THEN o[1] ELSE d

\* C32: for the generic SCPI model and for the Peaktech 4055MV, the
\* interface number claimed and the bulk OUT and bulk IN addresses resolved
\* by the driver are the configured values where supplied and the defaults
\* of the model otherwise (0, 0x81, 0x01 and 0, 0x82, 0x02)
C32_ConfiguredOrDefault ==
    (made.kind = "Ok" /\ made.value.kind = "ScpiUsb") =>
      LET d == ModelDefaults(args.device)
      IN  /\ Len(requested) >= 1 =>
                requested[1].n = ConfiguredOr(args.interface_number, d[1])
          /\ Len(requested) >= 2 =>
                requested[2].n = ConfiguredOr(args.bulk_out_address, d[3])
          /\ Len(requested) >= 3 =>
                requested[3].n = ConfiguredOr(args.bulk_in_address, d[2])

-----------------------------------------------------------------------------
(* Ends of read_response (SpecDecoder) *)

\* the length byte consumed behind 0xAB 0xCD leaves no room for the two
\* checksum bytes
ShortLength ==
    /\ SyncPos > 0 /\ Len(rx) >= SyncPos + 2
    /\ rx[SyncPos + 1] = 205
    /\ rx[SyncPos + 2] < 2

\* C33: read_response never crashes: whatever bytes it is fed it is still
\* reading or has returned a body or a Hid error; once a length byte of 0 or
\* 1 and the byte after it are consumed it has returned a Hid error
C33_NeverCrashes ==
    InReadResponse =>
      /\ resp.kind \in {"Running", "Ok", "Err"}
      /\ resp.kind = "Err" => resp.err = "Hid"
      /\ (ShortLength /\ Len(rx) > SyncPos + 2 /\ ~ReadFailed) =>
            resp.kind = "Err"

-----------------------------------------------------------------------------
(* The encoder against the decoder (Spec) *)

\* read_response fed the frame the driver encodes for opcode op
Echoed(op) == ReadResult(Decode(seq_of(op)))

\* C34: the frame the driver encodes passes the decoder's check: for each
\* of the twelve opcodes the 6 bytes [0xAB, 0xCD, 0x03, op, hi, lo] fed to
\* read_response give the body [op], the running sum at the comparison
\* being 0xAB + 0xCD + 0x03 + op = hi*256 + lo; so does every frame the
\* driver has written (without the length byte put before it)
C34_EncoderPassesDecoder ==
    /\ \A e \in OpcodeTable :
         LET f == seq_of(e[2])
         IN  /\ Len(f) = 6
             /\ Echoed(e[2]) = Ok(Some(<<e[2]>>))
             /\ Decode(f).sum = f[5] * 256 + f[6]
             /\ Decode(f).sum = 171 + 205 + 3 + e[2]
    /\ \A i \in 1..Len(hidlog) :
         hidlog[i].op = "write" =>
           ReadResult(Decode(Tail(hidlog[i].bytes)))
             = Ok(Some(<<OpcodeOf(commands[hidlog[i].tok])>>))

\* the driver has written the frames of Hold and of Measure
C34_Witness ==
    /\ commands = <<"Hold", "Measure">>
    /\ \E i \in 1..Len(hidlog) :
         hidlog[i].op = "write" /\ hidlog[i].tok = 2
         /\ Tail(hidlog[i].bytes) = <<171, 205, 3, 94, 1, 217>>
    /\ Echoed(94) = Ok(Some(<<94>>))

-----------------------------------------------------------------------------
(* The width of the running sum (SpecSum) *)

\* the largest running sum of a frame of length byte l
MaxSum(l) == 171 + 205 + l + (l - 2) * 255

\* the bytes before the first 0xAB are all zero
ZerosBeforeSync == \A i \in 1..(SyncPos - 1) : rx[i] = 0

\* C35: in a frame whose 0xAB only zero bytes precede, the running sum at
\* the comparison is at most 0xAB + 0xCD + L + (L-2)*255 for its length
\* byte L, which is at most 65146 and so below 65536 for every L in 2..255;
\* hence the frame is accepted exactly when the sum truncated to 16 bits
\* equals the received checksum, and rejected with the checksum error
\* exactly when it differs
C35_SumFitsSixteenBits ==
    /\ \A l \in 2..255 : MaxSum(l) <= 65146 /\ MaxSum(l) < U16
    /\ MaxSum(255) = 65146
    /\ (InReadResponse /\ SyncPos > 0 /\ ZerosBeforeSync) => sum < U16
    /\ (InReadResponse /\ FrameComplete /\ ZerosBeforeSync) =>
          /\ sum <= MaxSum(FrameLen)
          /\ Accepted <=> (sum % U16 = Trailing16)
          /\ ChecksumError <=> (sum % U16 # Trailing16)

\* a frame of length byte 255 whose payload bytes are all 255 was accepted:
\* the running sum is the largest there is
C35_Witness ==
    /\ Accepted /\ FrameComplete /\ ZerosBeforeSync
    /\ FrameLen = 255 /\ sum = 65146
    /\ \A i \in 1..Len(PayloadBytes) : PayloadBytes[i] = 255

-----------------------------------------------------------------------------
(* Delivered bytes and buffer filling (SpecDecoder) *)

\* what the device has sent from its first 0xAB on
SentFromSync ==
    IF FirstIndex(sent, 171) = 0 THEN <<>>
    ELSE SubSeq(sent, FirstIndex(sent, 171), Len(sent))

\* C36: only delivered bytes are fed to the decoder: after one read, which
\* may have delivered fewer than 64 bytes, the bytes consumed behind
\* 0xAB 0xCD as length, payload and checksum bytes are bytes the device
\* sent, none of them a zero the read buffer was initialised with
C36_OnlyDeliveredBytesFed ==
    (/\ InReadResponse /\ ~ReadFailed /\ nreads = 1
     /\ SyncPos > 0 /\ Len(rx) > SyncPos /\ rx[SyncPos + 1] = 205) =>
      IsPrefix(FromSync, SentFromSync)

-----------------------------------------------------------------------------
(* One read_response call after another (Spec) *)

\* a read_response call is at its start: no report read yet
CallStart == pc = "read" /\ nreads = 0

\* C37: nothing is carried from one read_response call to the next: every
\* call starts waiting for 0xAB with running sum 0, an empty buffer and no
\* byte consumed; an accepted frame ends the call at its last byte, the
\* bytes behind it in the report are dropped; so a reading the device sends
\* only as second frame of a report is never returned, neither by the next
\* call nor by a later one
C37_NothingCarriedOver ==
    /\ CallStart =>
          (state = 0 /\ sum = 0 /\ buf = <<>> /\ index = 0 /\ rx = <<>>)
    /\ (Accepted /\ InReadResponse) =>
          (FrameComplete /\ IsPrefix(StripZeros(rx), StripZeros(sent)))
    /\ \A i \in 1..Len(measurements) :
          measurements[i] # parse(SecondReading)[1]
    /\ (Accepted /\ InReadResponse) => resp.value # Some(SecondReading)

\* a frame was accepted with a measurement behind it in the same report,
\* and the batch goes on to its second token
C37_Witness ==
    /\ Len(commands) = 2 /\ tok = 2 /\ pc = "token"
    /\ Accepted /\ sent = TwoFrames
    /\ rx = DeviceFrame(<<1>>)
    /\ measurements = <<>>

-----------------------------------------------------------------------------
(* The field texts of an Apply token (SpecDialect) *)

\* the comma separated parts behind "Apply:" of token i
ApplyParts(i) == Split(DropFirst(dcommands[i], Len(APPLY_PREFIX)), COMMA)

\* the frequency field of token i: what follows the waveform name and its
\* space in the first part, if there is such a space
FrequencyField(i) ==
    LET first == ApplyParts(i)[1]
        sp == FirstIndex(first, SPACE)
    IN  IF sp = 0 THEN None ELSE Some(Trim(DropFirst(first, sp)))

\* the amplitude (k = 2) and the offset (k = 3) field of token i
CommaField(i, k) ==
    IF Len(ApplyParts(i)) >= k THEN Some(Trim(ApplyParts(i)[k])) ELSE None

\* C38: Apply parsing loses no field text: for every accepted Apply token
\* the frequency, the amplitude and the offset of the parsed command, and
\* so those of the command written, are the token's fields with the
\* whitespace around them trimmed, a frequency with a space inside in full
C38_ApplyKeepsFieldText ==
    PeakParsed =>
      \A i \in 1..Len(parsed) :
        parsed[i].kind = "Apply" =>
          /\ parsed[i].frequency = FrequencyField(i)
          /\ parsed[i].amplitude = CommaField(i, 2)
          /\ parsed[i].offset = CommaField(i, 3)
          /\ WrittenFor(i) \subseteq
               { Apply_to_command_string(
                   [kind |-> "Apply", waveform |-> parsed[i].waveform,
                    frequency |-> FrequencyField(i),
                    amplitude |-> CommaField(i, 2),
                    offset |-> CommaField(i, 3)]) }

-----------------------------------------------------------------------------
(* The two encodings of the raw dialect (SpecDialect) *)

\* C39: ScpiRawCommand and the inline encoding of the USB bulk driver agree
\* on every token: to_command gives the payload the inline encoding gives,
\* is_query decides as the inline test for '?' does, and every OUT transfer
\* of the dialect driver carries the payload of the inline encoding; also
\* for a token that ends with a newline or has its '?' before the end
C39_EncodingsAgree ==
    (driver = "ScpiUsb" /\ dpc # "parse") =>
      /\ \A i \in 1..Len(parsed) :
           /\ to_command(parsed[i]) = command_bytes(dcommands[i])
           /\ is_query(parsed[i]) <=> contains_qmark(dcommands[i])
      /\ \A k \in 1..Len(dlog) :
           (dlog[k].ev = "submit" /\ dlog[k].ep = "out") =>
             dlog[k].bytes = command_bytes(dcommands[dlog[k].tok])

=============================================================================
